---- MODULE Spec2Model ----
(***************************************************************************)
(* SongRate (static/app.js): the now-playing reconciler, its poll timers   *)
(* and the manual-selection paths, as a state machine.                     *)
(*                                                                         *)
(* Every await in app.js is a suspension point: the part of a handler     *)
(* before its await and its continuation are separate steps.  A handler    *)
(* whose part before the await changes no state (saveSettings,             *)
(* deleteRating, loadSettings) is one step, taken when its response        *)
(* arrives.  Time is abstracted: a live timer may fire at any moment.      *)
(* The server is not part of static/app.js; what a response carries is an  *)
(* input of the step that processes it.                                    *)
(*                                                                         *)
(* The analytics page (static/analytics.js) is a page of its own: its      *)
(* aggregation and table sort (SpecAnalytics) and its smart search         *)
(* (SpecSearch) have their own specifications, as have the rating          *)
(* handlers interleaved with the poll loop (SpecHandlers) and the settings *)
(* round trip through the store (SpecSettings).                            *)
(***************************************************************************)
EXTENDS Integers, Sequences, FiniteSets, TLC

\* ------------------------------------------------------------------ bounds
\* now-playing requests that may be outstanding together
MaxInFlight == 2
\* release-year lookups that may be outstanding together for one track
MaxLookups == 2
\* appSettings.pollPauseMs, counted in ticks of the clock SpecResume follows
PauseTicks == 2

\* ------------------------------------------------------- program constants
\* appSettings.maxRecent before any settings were loaded
DefaultMaxRecent == 5

\* ------------------------------------------------------------ input domains
\* videoIds the provider, the search and the sidebars may report
TrackIds == {"A", "B", "C"}
\* videoIds whose track snapshot carries an albumId
WithAlbumId == {"A"}
\* videoIds whose track snapshot carries a year
WithYear == {"C"}
\* track.year of a snapshot that has none (undefined, null or "")
NoYear == "none"
\* the year a snapshot carries, the year /api/enrich answers
SnapshotYear == "1997"
EnrichedYear == "2007"
\* values of the anti-flicker buffer size held by the settings store
MaxRecentChoices == {1, 3}
SidebarModes == {"album", "related"}

NoId == "none"

\* a track snapshot: the fields the reconciler reads (a song is reported as
\* rated, as recorded unrated, or as neither)
Tracks == {t \in [videoId : TrackIds, alreadyRated : BOOLEAN, alreadyUnrated : BOOLEAN] :
              ~(t.alreadyRated /\ t.alreadyUnrated)}

\* currentTrack = null
NullTrack == [videoId |-> NoId, alreadyRated |-> FALSE, alreadyUnrated |-> FALSE]

\* dom.altVersionsList without click handlers (placeholder text)
NoList == [kind |-> "none", track |-> NoId]

VARIABLES
    currentTrack,       \* the displayed track, NullTrack when none
    recentSongIds,      \* anti-flicker memory, oldest first
    appSettings,        \* maxRecent, sidebarMode
    pollInterval,       \* "set" when the handle names a live interval, else "null"
    activeIntervals,    \* number of live setInterval(pollNowPlaying) timers
    pollPauseTimeout,   \* "pending" while the auto-resume timer is live
    pausePollToggle,    \* the Pause Polling checkbox is checked
    nowPlayingInFlight, \* /api/now-playing requests awaiting their response
    loadSettingsPending,\* initMainApp's GET /api/settings is outstanding
    unratedPost,        \* videoId POSTed to /api/unrated by the last step (NoId: none)
    altVersionsList,    \* dom.altVersionsList: kind of list; for an album list the
                        \* track it was loaded for (the click handlers' closure)
    altListLoads,       \* loadAlbumTracks / loadAltVersions requests outstanding
    otherVersionsList,  \* dom.otherVersionsList: "none", "loading" or "rendered"
    lastPoll,           \* videoId of the poll result processed last (NoId: none since)
    pollRepeated,       \* that poll result carried the videoId of the one before it
    lastManual,         \* videoId clicked by the last user action, if a selection
    ratingPending,      \* submitRating's POST /api/ratings awaits its response
    uncaught,           \* a handler's continuation ended with an uncaught error
    ratingVideoId,      \* payload.videoId of the pending POST /api/ratings (NoId: none)
    savedRatings,       \* videoIds whose POST /api/ratings answered success
    stalePolls,         \* /api/now-playing requests in flight that were issued
                        \* before the last such answer arrived
    analyticsPage,      \* the analytics page (static/analytics.js): its module state,
                        \* its inputs and the smartMatch call under way; PageClosed
                        \* while the page is not open
    settingsDialog,     \* the settings dialog's inputs and the store behind
                        \* /api/settings; DialogClosed while the dialog is not followed
    ratedList,          \* the rated-songs list of the main page and its
                        \* GET /api/ratings requests; ListNotFollowed outside SpecRatings
    enrichment,         \* currentTrack.year and the /api/enrich lookups awaiting
                        \* their response; EnrichNotFollowed outside SpecEnrich
    resumeDelay         \* the auto-resume timeout's clock: ticks until it fires and
                        \* ticks since pausePolling() last ran; DelayNotFollowed
                        \* outside SpecResume

vars == <<currentTrack, recentSongIds, appSettings, pollInterval, activeIntervals,
          pollPauseTimeout, pausePollToggle, nowPlayingInFlight, loadSettingsPending,
          unratedPost, altVersionsList, altListLoads, otherVersionsList,
          lastPoll, pollRepeated, lastManual, ratingPending, uncaught,
          ratingVideoId, savedRatings, stalePolls,
          analyticsPage, settingsDialog, ratedList, enrichment, resumeDelay>>

\* ---- the analytics page (static/analytics.js)
\* rating rows of the file the user imports
importFile == analyticsPage.importFile
\* rating rows last handed to the aggregation
rawRatings == analyticsPage.rawRatings
\* artist and album summaries, NoData while null
analyticsData == analyticsPage.analyticsData
\* shrinkage constant C
currentShrinkage == analyticsPage.currentShrinkage
\* per table: the header carrying a sorted-asc/desc class
sortIndicator == analyticsPage.sortIndicator
\* the page defines a global named `artist`
artistBound == analyticsPage.artistBound
\* the Split Credits toggle as last read
splitArtists == analyticsPage.splitArtists
\* the data on display came from an imported file
usingImported == analyticsPage.usingImported
\* the last loadImportedData() call threw
importThrew == analyticsPage.importThrew
\* "import" or "sort": what touched analyticsData last
lastOp == analyticsPage.lastOp
\* custom chart builder: the values of its inputs
chartForm == analyticsPage.chartForm
\* custom chart builder: the entries of the chart on display
customChart == analyticsPage.customChart
\* smartMatch: the query, a sequence of characters
smQuery == analyticsPage.smQuery
\* smartMatch: the fields, each a sequence of characters
smFields == analyticsPage.smFields
\* smartMatch: "true" / "false" once it returned
smResult == analyticsPage.smResult

\* ---- the settings dialog and the store behind /api/settings
\* values of the settings dialog's inputs
settingsForm == settingsDialog.settingsForm
\* the stored settings, NoSettings before a save
settingsStore == settingsDialog.settingsStore
\* type of the toast saveSettings() showed in the last step ("none": no call)
settingsToast == settingsDialog.settingsToast
\* the last step sent POST /api/settings
settingsPosted == settingsDialog.settingsPosted

\* ---- the rated-songs list of the main page
\* the pages concatenated so far, each a slice of a result list
allRatings == ratedList.allRatings
\* offset the next Load More request asks for
currentOffset == ratedList.currentOffset
\* data.hasMore of the response applied last
hasMoreRatings == ratedList.hasMoreRatings
\* the Load More button is displayed
loadMoreShown == ratedList.loadMoreShown
\* value of the sort select
sortSelect == ratedList.sortSelect
\* GET /api/ratings requests awaiting their response
ratingsLoads == ratedList.ratingsLoads
\* loadRatings() calls so far
loadsStarted == ratedList.loadsStarted
\* number of the loadRatings() call that last started afresh
lastFullLoad == ratedList.lastFullLoad
\* ratings the store holds
ratingCount == ratedList.ratingCount

\* the rating request under way
requestVars == <<ratingPending, uncaught, ratingVideoId>>
\* what the rating store holds of this session, and the polls that may predate it
ratedVars == <<savedRatings, stalePolls>>
handlerVars == <<requestVars, ratedVars>>
\* state of the pages and stores other than the main page
pageVars == <<analyticsPage, settingsDialog, ratedList>>
\* state other than the main page's reconciler and handlers
otherVars == <<pageVars, enrichment>>
\* state of the main page (static/app.js)
appVars == <<currentTrack, recentSongIds, appSettings, pollInterval, activeIntervals,
             pollPauseTimeout, pausePollToggle, nowPlayingInFlight, loadSettingsPending,
             unratedPost, altVersionsList, altListLoads, otherVersionsList,
             lastPoll, pollRepeated, lastManual, ratingPending, uncaught,
             ratingVideoId, savedRatings, stalePolls, enrichment, resumeDelay>>
timerVars == <<pollInterval, activeIntervals, pollPauseTimeout, resumeDelay>>
sidebarVars == <<altVersionsList, altListLoads, otherVersionsList>>

Range(s) == {s[i] : i \in 1..Len(s)}

\* parseInt(v) || fallback, for an integer v: 0 is falsy
ParseIntOr(v, fallback) == IF v = 0 THEN fallback ELSE v

\* ------------------------------------------------------------------ helpers

\* index of the first ch at or after position from, 0 when there is none
FirstAt(str, ch, from) ==
    IF \E i \in from..Len(str) : str[i] = ch
    THEN CHOOSE i \in from..Len(str) :
             str[i] = ch /\ \A j \in from..(i - 1) : str[j] # ch
    ELSE 0

RECURSIVE SplitOn(_, _)
\* str.split(sep)
SplitOn(str, sep) ==
    LET i == FirstAt(str, sep, 1)
    IN  IF i = 0 THEN <<str>>
        ELSE <<SubSeq(str, 1, i - 1)>> \o SplitOn(SubSeq(str, i + 1, Len(str)), sep)

\* str.trim()
Trim(str) ==
    LET solid == {i \in DOMAIN str : str[i] # " "}
    IN  IF solid = {} THEN << >>
        ELSE SubSeq(str, CHOOSE i \in solid : \A j \in solid : i <= j,
                         CHOOSE i \in solid : \A j \in solid : i >= j)

\* variant: the push without the eviction
PushRecent_NoEvict(recent, id, maxRecent) == Append(recent, id)

\* recentSongIds.push(id); if (length > maxRecent) recentSongIds.shift()
PushRecent(recent, id, maxRecent) ==
    LET pushed == Append(recent, id)
    IN  IF Len(pushed) > maxRecent THEN Tail(pushed) ELSE pushed

\* variant: the anti-flicker test never reports a repeat
IsRecentRepeat_Never(recent, id) == FALSE

\* recentSongIds.includes(incoming.videoId)
IsRecentRepeat(recent, id) == id \in Range(recent)

\* variant: the same-song test never succeeds
SameSong_Never(incoming, current) == FALSE

\* incoming.videoId === currentTrack.videoId
SameSong(incoming, current) == incoming.videoId = current.videoId

\* variant: every displayed track is captured, rated or not
NeedsCapture_RatedToo(track) == track # NullTrack

\* currentTrack && !currentTrack.alreadyRated && !currentTrack.alreadyUnrated
NeedsCapture(track) ==
    track # NullTrack /\ ~track.alreadyRated /\ ~track.alreadyUnrated

\* variant: acceptTrack keeps the memory when the call is not from a poll
RecentAfterAccept_NoClear(recent, old, maxRecent, fromPoll) ==
    IF fromPoll /\ old # NullTrack THEN PushRecent(recent, old.videoId, maxRecent)
    ELSE recent

\* recentSongIds after acceptTrack(track, animate, fromPoll)
RecentAfterAccept(recent, old, maxRecent, fromPoll) ==
    IF fromPoll
    THEN IF old # NullTrack THEN PushRecent(recent, old.videoId, maxRecent) ELSE recent
    ELSE << >>

\* variant: the sidebar click handlers leave the memory as it is
RecentAfterSidebarClick_Kept(recent) == recent

\* recentSongIds.length = 0 in the sidebar click handlers
RecentAfterSidebarClick(recent) == << >>

\* no request to /api/unrated in this step
NoPost == unratedPost' = NoId

\* loadAlbumTracks(track) up to its await
LoadAlbumTracks(track) ==
    /\ altVersionsList' = NoList
    /\ altListLoads' = IF track.videoId \in WithAlbumId
                       THEN altListLoads \cup {[fn |-> "album", track |-> track.videoId]}
                       ELSE altListLoads

\* loadAltVersions(track) up to its await (the rendered list leaves out the track
\* it was loaded for; which other tracks it holds is the server's choice)
LoadAltVersions(track) ==
    /\ altVersionsList' = NoList
    /\ altListLoads' = altListLoads \cup {[fn |-> "related", track |-> NoId]}

\* loadOtherVersions(track) up to its await
LoadOtherVersions(track) == otherVersionsList' = "loading"

\* if (sidebarMode === "album") loadAlbumTracks(track); else loadAltVersions(track);
\* loadOtherVersions(track)
LoadSidebars(track, mode) ==
    /\ IF mode = "album" THEN LoadAlbumTracks(track) ELSE LoadAltVersions(track)
    /\ LoadOtherVersions(track)

\* track.year of a snapshot
YearOf(track) == IF track.videoId \in WithYear THEN SnapshotYear ELSE NoYear

\* the year of the displayed track is not followed
EnrichNotFollowed == [followed |-> FALSE]

\* currentTrack.year, and per track the lookups enrichYearIfNeeded() awaits
currentYear == enrichment.year
lookups == enrichment.lookups

\* `track` becomes the displayed track (its year is the displayed one) and
\* enrichYearIfNeeded(track) runs up to its await
EnrichYearIfNeeded(track) ==
    IF ~enrichment.followed
    THEN UNCHANGED enrichment
    ELSE IF YearOf(track) # NoYear \/ track.videoId \notin WithAlbumId
    THEN enrichment' = [enrichment EXCEPT !.year = YearOf(track)]
    ELSE /\ lookups[track.videoId] < MaxLookups
         /\ enrichment' = [enrichment EXCEPT !.year = NoYear,
                                              !.lookups[track.videoId] = @ + 1]

\* pollNowPlaying(), same song: incoming.year = incoming.year || currentTrack.year
KeepEnrichedYear(incoming) ==
    enrichment' = IF enrichment.followed /\ YearOf(incoming) # NoYear
                  THEN [enrichment EXCEPT !.year = YearOf(incoming)]
                  ELSE enrichment

\* currentTrack = null: no track carries a year
DropYear ==
    enrichment' = IF enrichment.followed THEN [enrichment EXCEPT !.year = NoYear]
                  ELSE enrichment

\* variant: acceptTrack without the call of saveAsUnrated
AcceptTrack_NoCapture(track, fromPoll) ==
    /\ unratedPost' = NoId
    /\ recentSongIds' = RecentAfterAccept(recentSongIds, currentTrack,
                                          appSettings.maxRecent, fromPoll)
    /\ currentTrack' = track
    /\ EnrichYearIfNeeded(track)
    /\ LoadSidebars(track, appSettings.sidebarMode)

\* acceptTrack(track, animate, fromPoll)
AcceptTrack(track, fromPoll) ==
    /\ unratedPost' = IF NeedsCapture(currentTrack) THEN currentTrack.videoId ELSE NoId
    /\ recentSongIds' = RecentAfterAccept(recentSongIds, currentTrack,
                                          appSettings.maxRecent, fromPoll)
    /\ currentTrack' = track
    /\ EnrichYearIfNeeded(track)
    /\ LoadSidebars(track, appSettings.sidebarMode)

\* a response to a request issued before the last saved rating is the first
\* to arrive
StaleAfterResponse == IF stalePolls > 0 THEN stalePolls - 1 ELSE 0

\* variant: clearInterval is not called, the interval keeps running
IntervalsAfterClear_Leak == activeIntervals

\* clearInterval(pollInterval): the interval the handle names stops
IntervalsAfterClear == IF pollInterval = "set" THEN activeIntervals - 1 ELSE activeIntervals

\* the clock of the auto-resume timeout is not followed
DelayNotFollowed == [followed |-> FALSE]

\* no auto-resume timeout is pending
NoDelay == [followed |-> TRUE, remaining |-> 0, sincePause |-> 0]

\* clearTimeout(pollPauseTimeout)
DelayCancelled == IF resumeDelay.followed THEN NoDelay ELSE resumeDelay

\* variant: pausePolling() leaves a pending timeout running
DelayRestarted_KeepPending ==
    IF resumeDelay.followed
    THEN IF pollPauseTimeout = "pending"
         THEN [resumeDelay EXCEPT !.sincePause = 0]
         ELSE [followed |-> TRUE, remaining |-> PauseTicks, sincePause |-> 0]
    ELSE resumeDelay

\* clearTimeout(pollPauseTimeout); setTimeout(..., appSettings.pollPauseMs)
DelayRestarted ==
    IF resumeDelay.followed
    THEN [followed |-> TRUE, remaining |-> PauseTicks, sincePause |-> 0]
    ELSE resumeDelay

\* the delay of the pending timeout has elapsed
DelayElapsed == resumeDelay.followed => resumeDelay.remaining = 0

\* pausePolling()
PausePolling ==
    /\ pollInterval' = "null"
    /\ activeIntervals' = IntervalsAfterClear
    /\ pollPauseTimeout' = IF pausePollToggle THEN "null" ELSE "pending"
    /\ resumeDelay' = IF pausePollToggle THEN DelayCancelled ELSE DelayRestarted

\* startPolling(), called while the toggle reads `checked`
StartPolling(checked) ==
    IF checked
    THEN UNCHANGED <<pollInterval, activeIntervals, nowPlayingInFlight>>
    ELSE /\ nowPlayingInFlight < MaxInFlight
         /\ nowPlayingInFlight' = nowPlayingInFlight + 1
         /\ pollInterval' = "set"
         /\ activeIntervals' = activeIntervals + 1

\* -------------------------------------------------------------------- Init
\* the state initMainApp() leaves: loadSettings() and the first
\* pollNowPlaying() are awaiting their responses, the interval is running
InitApp ==
    /\ currentTrack = NullTrack
    /\ recentSongIds = << >>
    /\ appSettings = [ratingMin |-> 1, ratingMax |-> 10, pollPauseMs |-> 10000,
                      maxRecent |-> DefaultMaxRecent, sidebarMode |-> "album"]
    /\ pollInterval = "set"
    /\ activeIntervals = 1
    /\ pollPauseTimeout = "null"
    /\ pausePollToggle = FALSE
    /\ nowPlayingInFlight = 1
    /\ loadSettingsPending = TRUE
    /\ unratedPost = NoId
    /\ altVersionsList = NoList
    /\ altListLoads = {}
    /\ otherVersionsList = "none"
    /\ lastPoll = NoId
    /\ pollRepeated = FALSE
    /\ lastManual = NoId
    /\ ratingPending = FALSE
    /\ uncaught = FALSE
    /\ ratingVideoId = NoId
    /\ savedRatings = {}
    /\ stalePolls = 0

\* analyticsData = null
NoData ==
    [artists |-> << >>, albums |-> << >>, globalMean |-> [num |-> 0, den |-> 1],
     loaded |-> FALSE]

\* no header of the table carries a sort class
NoSort == [key |-> "none", dir |-> "none"]

\* parseFloat of an input left empty / holding the number v
NaN == [isNaN |-> TRUE, v |-> 0]
Num(v) == [isNaN |-> FALSE, v |-> v]

\* the custom chart before the first Generate click
NoChart == [made |-> FALSE, threw |-> FALSE]

\* the chart builder's inputs as the page is opened
ChartFormUntouched ==
    [groupBy |-> "artist", metric |-> "count", sortMode |-> [key |-> "value", dir |-> "desc"],
     limit |-> 0, minRating |-> NaN, maxRating |-> NaN]

\* the analytics page is not open
PageClosed == [open |-> FALSE]

\* the analytics page as it is opened: nothing imported, no table sorted, no
\* chart generated, no smartMatch call under way
PageOpened ==
    [importFile |-> << >>, rawRatings |-> << >>, analyticsData |-> NoData,
     currentShrinkage |-> 5, sortIndicator |-> [artist |-> NoSort, album |-> NoSort],
     artistBound |-> FALSE, splitArtists |-> TRUE, usingImported |-> FALSE,
     importThrew |-> FALSE, lastOp |-> "none",
     chartForm |-> ChartFormUntouched, customChart |-> NoChart,
     smQuery |-> << >>, smFields |-> << >>, smResult |-> "pending"]

\* nothing saved yet
NoSettings == [saved |-> FALSE]

\* the settings dialog is not followed
DialogClosed == [open |-> FALSE]

\* the settings dialog filled in with form, nothing stored, no call of
\* saveSettings() yet
DialogWith(form) ==
    [settingsForm |-> form, settingsStore |-> NoSettings,
     settingsToast |-> "none", settingsPosted |-> FALSE]

\* a GET /api/ratings request: n numbers the loadRatings() call, full is the
\* call that last started afresh when it was made
RatingsRequest(n, full, offset, sortBy) ==
    [n |-> n, full |-> full, offset |-> offset, sortBy |-> sortBy]

\* the rated-songs list is not followed
ListNotFollowed == [followed |-> FALSE]

\* the rated-songs list as initMainApp() leaves it, the store holding count
\* ratings: the first loadRatings() awaits its response
ListAtStart(count) ==
    [allRatings |-> << >>, currentOffset |-> 0, hasMoreRatings |-> FALSE,
     loadMoreShown |-> FALSE, sortSelect |-> "date",
     ratingsLoads |-> {RatingsRequest(1, 1, 0, "date")},
     loadsStarted |-> 1, lastFullLoad |-> 1, ratingCount |-> count]

\* the main page; the analytics page is not open
Init ==
    /\ InitApp
    /\ analyticsPage = PageClosed
    /\ settingsDialog = DialogClosed
    /\ ratedList = ListNotFollowed
    /\ enrichment = EnrichNotFollowed
    /\ resumeDelay = DelayNotFollowed

\* ----------------------------------------------------------------- actions

\* a recurring interval fires: pollNowPlaying() up to its await
PollTick ==
    /\ UNCHANGED <<handlerVars, otherVars>>
    /\ activeIntervals > 0
    /\ nowPlayingInFlight < MaxInFlight
    /\ nowPlayingInFlight' = nowPlayingInFlight + 1
    /\ NoPost
    /\ UNCHANGED <<currentTrack, recentSongIds, appSettings, timerVars, pausePollToggle,
                   loadSettingsPending, sidebarVars, lastPoll, pollRepeated, lastManual>>

\* variant: api() does not catch, the failure ends pollNowPlaying()
PollNoTrack_Propagates ==
    /\ UNCHANGED <<ratingPending, ratingVideoId, savedRatings, pageVars, enrichment>>
    /\ uncaught' = TRUE
    /\ stalePolls' = StaleAfterResponse
    /\ nowPlayingInFlight > 0
    /\ nowPlayingInFlight' = nowPlayingInFlight - 1
    /\ lastPoll' = NoId
    /\ pollRepeated' = FALSE
    /\ lastManual' = NoId
    /\ NoPost
    /\ UNCHANGED <<currentTrack, recentSongIds, appSettings, timerVars, pausePollToggle,
                   loadSettingsPending, sidebarVars>>

\* pollNowPlaying() after its await, the request failed or carried no track:
\* showEmptyState()
PollNoTrack ==
    /\ UNCHANGED <<requestVars, savedRatings, pageVars>>
    /\ DropYear
    /\ stalePolls' = StaleAfterResponse
    /\ nowPlayingInFlight > 0
    /\ nowPlayingInFlight' = nowPlayingInFlight - 1
    /\ currentTrack' = NullTrack
    /\ lastPoll' = NoId
    /\ pollRepeated' = FALSE
    /\ lastManual' = NoId
    /\ NoPost
    /\ UNCHANGED <<recentSongIds, appSettings, timerVars, pausePollToggle,
                   loadSettingsPending, sidebarVars>>

\* pollNowPlaying() after its await, the response carries data.track = incoming
\* (a track whose rating was saved is reported as unrated only by a response
\* to a request that was in flight when the rating's answer arrived)
PollObserved(incoming) ==
    /\ UNCHANGED <<requestVars, savedRatings, pageVars>>
    /\ (incoming.videoId \in savedRatings /\ ~incoming.alreadyRated) => stalePolls > 0
    /\ stalePolls' = StaleAfterResponse
    /\ nowPlayingInFlight > 0
    /\ nowPlayingInFlight' = nowPlayingInFlight - 1
    /\ lastPoll' = incoming.videoId
    /\ pollRepeated' = (lastPoll = incoming.videoId)
    /\ lastManual' = NoId
    /\ IF currentTrack = NullTrack
       THEN AcceptTrack(incoming, FALSE)
       ELSE IF SameSong(incoming, currentTrack)
       THEN /\ currentTrack' = incoming
            /\ KeepEnrichedYear(incoming)
            /\ NoPost
            /\ UNCHANGED <<recentSongIds, sidebarVars>>
       ELSE IF IsRecentRepeat(recentSongIds, incoming.videoId)
       THEN /\ NoPost
            /\ UNCHANGED <<currentTrack, recentSongIds, sidebarVars, enrichment>>
       ELSE AcceptTrack(incoming, TRUE)
    /\ UNCHANGED <<appSettings, timerVars, pausePollToggle, loadSettingsPending>>

\* click on a search result: acceptTrack(track, true); pausePolling()
SearchResultClick(track) ==
    /\ UNCHANGED <<handlerVars, pageVars>>
    /\ AcceptTrack(track, FALSE)
    /\ PausePolling
    /\ lastPoll' = NoId
    /\ pollRepeated' = FALSE
    /\ lastManual' = track.videoId
    /\ UNCHANGED <<appSettings, pausePollToggle, nowPlayingInFlight, loadSettingsPending>>

\* click on an item of the related list rendered by renderAltVersions
AltVersionClick(track) ==
    /\ UNCHANGED <<handlerVars, pageVars>>
    /\ altVersionsList.kind = "related"
    /\ recentSongIds' = RecentAfterSidebarClick(recentSongIds)
    /\ currentTrack' = track
    /\ EnrichYearIfNeeded(track)
    /\ PausePolling
    /\ LoadSidebars(track, appSettings.sidebarMode)
    /\ NoPost
    /\ lastPoll' = NoId
    /\ pollRepeated' = FALSE
    /\ lastManual' = track.videoId
    /\ UNCHANGED <<appSettings, pausePollToggle, nowPlayingInFlight, loadSettingsPending>>

\* click on an item of the list rendered by loadOtherVersions
OtherVersionClick(v) ==
    /\ UNCHANGED <<handlerVars, pageVars>>
    /\ otherVersionsList = "rendered"
    /\ recentSongIds' = RecentAfterSidebarClick(recentSongIds)
    /\ currentTrack' = v
    /\ EnrichYearIfNeeded(v)
    /\ PausePolling
    /\ LoadSidebars(v, appSettings.sidebarMode)
    /\ NoPost
    /\ lastPoll' = NoId
    /\ pollRepeated' = FALSE
    /\ lastManual' = v.videoId
    /\ UNCHANGED <<appSettings, pausePollToggle, nowPlayingInFlight, loadSettingsPending>>

\* click on an item of the album list rendered by loadAlbumTracks(track):
\* the handler returns at once when the item is the track the list was loaded for
AlbumTrackClick(t) ==
    /\ UNCHANGED <<handlerVars, pageVars>>
    /\ altVersionsList.kind = "album"
    /\ NoPost
    /\ lastPoll' = NoId
    /\ pollRepeated' = FALSE
    /\ lastManual' = t.videoId
    /\ IF t.videoId = altVersionsList.track
       THEN UNCHANGED <<currentTrack, recentSongIds, timerVars, sidebarVars, enrichment>>
       ELSE /\ recentSongIds' = RecentAfterSidebarClick(recentSongIds)
            /\ currentTrack' = t
            /\ EnrichYearIfNeeded(t)
            /\ PausePolling
            /\ LoadAlbumTracks(t)
            /\ LoadOtherVersions(t)
    /\ UNCHANGED <<appSettings, pausePollToggle, nowPlayingInFlight, loadSettingsPending>>

\* loadAlbumTracks / loadAltVersions after the await: the list is rendered
\* with its click handlers (ok) or replaced by a placeholder
AltListLoaded(req, ok) ==
    /\ UNCHANGED <<handlerVars, otherVars>>
    /\ req \in altListLoads
    /\ altListLoads' = altListLoads \ {req}
    /\ altVersionsList' = IF ok THEN [kind |-> req.fn, track |-> req.track] ELSE NoList
    /\ NoPost
    /\ UNCHANGED <<currentTrack, recentSongIds, appSettings, timerVars, pausePollToggle,
                   nowPlayingInFlight, loadSettingsPending, otherVersionsList,
                   lastPoll, pollRepeated, lastManual>>

\* loadOtherVersions after the await
OtherVersionsLoaded(ok) ==
    /\ UNCHANGED <<handlerVars, otherVars>>
    /\ otherVersionsList = "loading"
    /\ otherVersionsList' = IF ok THEN "rendered" ELSE "none"
    /\ NoPost
    /\ UNCHANGED <<currentTrack, recentSongIds, appSettings, timerVars, pausePollToggle,
                   nowPlayingInFlight, loadSettingsPending, altVersionsList, altListLoads,
                   lastPoll, pollRepeated, lastManual>>

\* the auto-resume timeout set by pausePolling() fires
ResumeTimerFires ==
    /\ UNCHANGED <<handlerVars, otherVars>>
    /\ pollPauseTimeout = "pending"
    /\ DelayElapsed
    /\ pollPauseTimeout' = "null"
    /\ UNCHANGED resumeDelay
    /\ StartPolling(pausePollToggle)
    /\ NoPost
    /\ UNCHANGED <<currentTrack, recentSongIds, appSettings, pausePollToggle,
                   loadSettingsPending, sidebarVars, lastPoll, pollRepeated, lastManual>>

\* change event of the Pause Polling checkbox
PausePollToggleChange ==
    /\ UNCHANGED <<handlerVars, otherVars>>
    /\ pausePollToggle' = ~pausePollToggle
    /\ lastManual' = NoId
    /\ IF pausePollToggle'
       THEN /\ pollInterval' = "null"
            /\ activeIntervals' = IntervalsAfterClear
            /\ pollPauseTimeout' = "null"
            /\ resumeDelay' = DelayCancelled
            /\ UNCHANGED nowPlayingInFlight
       ELSE /\ StartPolling(FALSE)
            /\ UNCHANGED <<pollPauseTimeout, resumeDelay>>
    /\ NoPost
    /\ UNCHANGED <<currentTrack, recentSongIds, appSettings, loadSettingsPending,
                   sidebarVars, lastPoll, pollRepeated>>

\* loadSettings() after its await (data = null when the request failed)
LoadSettingsResult(ok, maxRecent, mode) ==
    /\ UNCHANGED <<handlerVars, otherVars>>
    /\ loadSettingsPending
    /\ loadSettingsPending' = FALSE
    /\ appSettings' = IF ok THEN [appSettings EXCEPT !.maxRecent = maxRecent,
                                                     !.sidebarMode = mode]
                      ELSE appSettings
    /\ NoPost
    /\ UNCHANGED <<currentTrack, recentSongIds, timerVars, pausePollToggle,
                   nowPlayingInFlight, sidebarVars, lastPoll, pollRepeated, lastManual>>

\* saveSettings() with a valid range, the settings store answered success
SaveSettings(maxRecent, mode) ==
    /\ UNCHANGED <<handlerVars, otherVars>>
    /\ appSettings' = [appSettings EXCEPT !.maxRecent = maxRecent, !.sidebarMode = mode]
    /\ IF currentTrack # NullTrack
       THEN IF mode = "album" THEN LoadAlbumTracks(currentTrack)
                              ELSE LoadAltVersions(currentTrack)
       ELSE UNCHANGED <<altVersionsList, altListLoads>>
    /\ lastManual' = NoId
    /\ NoPost
    /\ UNCHANGED <<currentTrack, recentSongIds, timerVars, pausePollToggle,
                   nowPlayingInFlight, loadSettingsPending, otherVersionsList, lastPoll,
                   pollRepeated>>

\* deleteRating() after its await, success: loadRatings(); pollNowPlaying()
\* (which rating was deleted is not tracked: none counts as saved afterwards)
DeleteRating ==
    /\ UNCHANGED <<requestVars, stalePolls, otherVars>>
    /\ savedRatings' = {}
    /\ nowPlayingInFlight < MaxInFlight
    /\ nowPlayingInFlight' = nowPlayingInFlight + 1
    /\ lastManual' = NoId
    /\ NoPost
    /\ UNCHANGED <<currentTrack, recentSongIds, appSettings, timerVars, pausePollToggle,
                   loadSettingsPending, sidebarVars, lastPoll, pollRepeated>>

Next ==
    \/ PollTick
    \/ PollNoTrack
    \/ \E incoming \in Tracks : PollObserved(incoming)
    \/ \E track \in Tracks : SearchResultClick(track)
    \/ \E track \in Tracks : AltVersionClick(track)
    \/ \E v \in Tracks : OtherVersionClick(v)
    \/ \E t \in Tracks : AlbumTrackClick(t)
    \/ \E req \in altListLoads, ok \in BOOLEAN : AltListLoaded(req, ok)
    \/ \E ok \in BOOLEAN : OtherVersionsLoaded(ok)
    \/ ResumeTimerFires
    \/ PausePollToggleChange
    \/ \E ok \in BOOLEAN, m \in MaxRecentChoices, s \in SidebarModes :
          LoadSettingsResult(ok, m, s)
    \/ \E m \in MaxRecentChoices, s \in SidebarModes : SaveSettings(m, s)
    \/ DeleteRating

Spec == Init /\ [][Next]_vars

\* ------------------------------------------ rating handlers and the poll loop

\* click on "Rate This Song": submitRating() up to its await (returns at once
\* when no track is displayed); one request outstanding at a time
SubmitRatingClick ==
    /\ currentTrack # NullTrack
    /\ ~ratingPending
    /\ ratingPending' = TRUE
    /\ ratingVideoId' = currentTrack.videoId
    /\ NoPost
    /\ UNCHANGED <<currentTrack, recentSongIds, appSettings, timerVars, pausePollToggle,
                   nowPlayingInFlight, loadSettingsPending, sidebarVars, lastPoll,
                   pollRepeated, lastManual, uncaught, ratedVars, otherVars>>

\* submitRating() after its await; outcome is what the response carries:
\* "success", "duplicate" or anything else (null included)
SubmitRatingResult(outcome) ==
    /\ ratingPending
    /\ ratingPending' = FALSE
    /\ ratingVideoId' = NoId
    /\ savedRatings' = IF outcome = "success" THEN savedRatings \cup {ratingVideoId}
                       ELSE savedRatings
    /\ stalePolls' = IF outcome = "success" THEN nowPlayingInFlight ELSE stalePolls
    /\ NoPost
    /\ IF outcome = "success"
       THEN IF currentTrack = NullTrack
            THEN \* currentTrack.alreadyRated = true on null: TypeError, the
                 \* rest of the branch (pausePolling) is not reached
                 /\ uncaught' = TRUE
                 /\ UNCHANGED <<currentTrack, timerVars>>
            ELSE /\ currentTrack' = [currentTrack EXCEPT !.alreadyRated = TRUE]
                 /\ PausePolling
                 /\ UNCHANGED uncaught
       ELSE IF outcome = "duplicate"
       THEN /\ currentTrack' = IF currentTrack # NullTrack
                               THEN [currentTrack EXCEPT !.alreadyRated = TRUE]
                               ELSE currentTrack
            /\ UNCHANGED <<timerVars, uncaught>>
       ELSE UNCHANGED <<currentTrack, timerVars, uncaught>>
    /\ UNCHANGED <<recentSongIds, appSettings, pausePollToggle, nowPlayingInFlight,
                   loadSettingsPending, sidebarVars, lastPoll, pollRepeated, lastManual,
                   otherVars>>

\* saveEdit() after its await, success; shown: the edited entry is the
\* displayed track (result.entry.videoId === currentTrack.videoId)
SaveEditResult(shown) ==
    /\ currentTrack' = IF currentTrack # NullTrack /\ shown
                       THEN [currentTrack EXCEPT !.alreadyRated = TRUE]
                       ELSE currentTrack
    /\ PausePolling
    /\ NoPost
    /\ UNCHANGED <<recentSongIds, appSettings, pausePollToggle, nowPlayingInFlight,
                   loadSettingsPending, sidebarVars, lastPoll, pollRepeated, lastManual,
                   handlerVars, otherVars>>

RatingOutcomes == {"success", "duplicate", "error"}

\* the poll loop interleaved with the rating, edit and delete handlers
NextHandlers ==
    \/ PollTick
    \/ PollNoTrack
    \/ \E incoming \in Tracks : PollObserved(incoming)
    \/ ResumeTimerFires
    \/ DeleteRating
    \/ SubmitRatingClick
    \/ \E outcome \in RatingOutcomes : SubmitRatingResult(outcome)
    \/ \E shown \in BOOLEAN : SaveEditResult(shown)

SpecHandlers == Init /\ [][NextHandlers]_vars

\* --------------------------------------------- release-year enrichment

\* what /api/enrich may answer: data.year, NoYear when the request failed or
\* the answer carries no year
EnrichAnswers == {NoYear, EnrichedYear}

\* variant: the response is applied whatever track is displayed
EnrichApplies_Unguarded(id, dataYear) == dataYear # NoYear

\* enrichYearIfNeeded(track) after its await: the condition under which the
\* answer is written to currentTrack.year (id: track.videoId)
EnrichApplies(id, dataYear) ==
    /\ dataYear # NoYear
    /\ currentTrack # NullTrack
    /\ currentTrack.videoId = id

\* enrichYearIfNeeded(track) after its await
EnrichResult(id, dataYear) ==
    /\ enrichment.followed
    /\ lookups[id] > 0
    /\ enrichment' = [enrichment EXCEPT
                         !.lookups[id] = @ - 1,
                         !.year = IF EnrichApplies(id, dataYear) THEN dataYear ELSE @]
    /\ NoPost
    /\ UNCHANGED <<currentTrack, recentSongIds, appSettings, timerVars, pausePollToggle,
                   nowPlayingInFlight, loadSettingsPending, sidebarVars, lastPoll,
                   pollRepeated, lastManual, handlerVars, pageVars>>

\* the main page with the year of the displayed track followed
InitEnrich ==
    /\ InitApp
    /\ analyticsPage = PageClosed
    /\ settingsDialog = DialogClosed
    /\ ratedList = ListNotFollowed
    /\ enrichment = [followed |-> TRUE, year |-> NoYear,
                     lookups |-> [id \in WithAlbumId |-> 0]]
    /\ resumeDelay = DelayNotFollowed

\* the poll loop and the search selection interleaved with the lookups
NextEnrich ==
    \/ PollTick
    \/ PollNoTrack
    \/ \E incoming \in Tracks : PollObserved(incoming)
    \/ \E track \in Tracks : SearchResultClick(track)
    \/ \E req \in altListLoads, ok \in BOOLEAN : AltListLoaded(req, ok)
    \/ \E t \in Tracks : AlbumTrackClick(t)
    \/ ResumeTimerFires
    \/ \E id \in WithAlbumId, dataYear \in EnrichAnswers : EnrichResult(id, dataYear)

SpecEnrich == InitEnrich /\ [][NextEnrich]_vars

\* ------------------------------------------------- pause and auto-resume

\* tracks the provider and the search report in SpecResume
ResumeTracks == {t \in Tracks : t.videoId \in {"A", "B"} /\ ~t.alreadyUnrated}

\* one tick of the clock passes; a timeout whose delay has elapsed fires
\* before the next tick
TimePasses ==
    /\ resumeDelay.followed
    /\ pollPauseTimeout = "pending"
    /\ resumeDelay.remaining > 0
    /\ resumeDelay' = [resumeDelay EXCEPT !.remaining = @ - 1, !.sincePause = @ + 1]
    /\ NoPost
    /\ UNCHANGED <<currentTrack, recentSongIds, appSettings, pollInterval,
                   activeIntervals, pollPauseTimeout, pausePollToggle,
                   nowPlayingInFlight, loadSettingsPending, sidebarVars, lastPoll,
                   pollRepeated, lastManual, handlerVars, otherVars>>

\* a /api/now-playing response arrives
PollResponse == PollNoTrack \/ \E incoming \in ResumeTracks : PollObserved(incoming)

\* the main page with the clock of the auto-resume timeout followed
InitResume ==
    /\ InitApp
    /\ analyticsPage = PageClosed
    /\ settingsDialog = DialogClosed
    /\ ratedList = ListNotFollowed
    /\ enrichment = EnrichNotFollowed
    /\ resumeDelay = NoDelay

\* the poll loop, the three pause-triggering handlers, the toggle and the clock
NextResume ==
    \/ PollTick
    \/ PollResponse
    \/ \E track \in ResumeTracks : SearchResultClick(track)
    \/ SubmitRatingClick
    \/ \E outcome \in RatingOutcomes : SubmitRatingResult(outcome)
    \/ \E shown \in BOOLEAN : SaveEditResult(shown)
    \/ PausePollToggleChange
    \/ TimePasses
    \/ ResumeTimerFires

\* time passes, a timeout whose delay elapsed fires, and every
\* /api/now-playing request is answered or fails
FairResume ==
    /\ WF_vars(TimePasses)
    /\ SF_vars(ResumeTimerFires)
    /\ WF_vars(PollResponse)

SpecResume == InitResume /\ [][NextResume]_vars /\ FairResume

\* ------------------------------------ analytics page: aggregation and sort
\* Scores are kept exactly: a quotient is a record [num, den] with den > 0,
\* a rounded field is the integer number of thousandths.

\* rows of an imported file beyond the fixed examples
MaxRows == 2

\* a rating row: artist and album are "" when the field is missing; isNumber
\* is typeof r.rating === "number"
RatingRows ==
    {r \in [artist : {"X", "Y", ""}, album : {"L", ""}, rating : {8, 10},
            isNumber : BOOLEAN] :
        /\ (r.artist = "" => r.album # "" /\ r.isNumber)
        /\ (r.album = "" => r.isNumber)
        /\ (~r.isNumber => r.rating = 8)}

Row(artist, rating) == [artist |-> artist, album |-> "L", rating |-> rating, isNumber |-> TRUE]

\* ratings X:10, X:10, Y:8
ExampleRatings == <<Row("X", 10), Row("X", 10), Row("Y", 8)>>

RatingLists ==
    UNION {[1..n -> RatingRows] : n \in 0..MaxRows} \cup {ExampleRatings}

ShrinkageChoices == {0, 5}
SortKeys == {"adjustedScore", "avgScore", "appearances"}

\* r.artist || "Unknown"
ArtistOf(r) == IF r.artist = "" THEN "Unknown" ELSE r.artist
\* r.album || "Unknown"
AlbumOf(r) == IF r.album = "" THEN "Unknown" ELSE r.album
\* the key of a row in artistMap / albumMap
KeyOf(r, table) == IF table = "artist" THEN ArtistOf(r) ELSE AlbumOf(r)

\* the characters of an artist string
CharsOf(str) ==
    CASE str = "X" -> <<"X">>
      [] str = "Y" -> <<"Y">>
      [] str = "X, Y" -> <<"X", ",", " ", "Y">>
      [] str = "X, X" -> <<"X", ",", " ", "X">>
      [] str = "Unknown" -> <<"U", "n", "k", "n", "o", "w", "n">>

\* the artist strings rows and credits are made of
ArtistStrings == {"X", "Y", "X, Y", "X, X", "Unknown"}

\* the string made of the characters chars
StringOf(chars) == CHOOSE str \in ArtistStrings : CharsOf(str) = chars

\* rawArtist.split(",").map(a => a.trim()).filter(Boolean)
SplitCredits(rawArtist) ==
    LET parts == SplitOn(CharsOf(rawArtist), ",")
        named == SelectSeq([i \in DOMAIN parts |-> Trim(parts[i])], LAMBDA a : a # << >>)
    IN  [i \in DOMAIN named |-> StringOf(named[i])]

\* variant: a credited name is kept once per row
ArtistNames_Distinct(r, split) ==
    LET names == IF split THEN SplitCredits(ArtistOf(r)) ELSE <<ArtistOf(r)>>
    IN  SelectSeq([i \in DOMAIN names |->
                      IF \E j \in 1..(i - 1) : names[j] = names[i] THEN "" ELSE names[i]],
                  LAMBDA a : a # "")

\* artistNames of a row
ArtistNames(r, split) == IF split THEN SplitCredits(ArtistOf(r)) ELSE <<ArtistOf(r)>>

\* the entries of artistMap / albumMap a row is counted for, in order
KeysOf(r, table, split) ==
    IF table = "artist" THEN ArtistNames(r, split) ELSE <<AlbumOf(r)>>

RECURSIVE SumSeq(_)
\* scores.reduce((a, b) => a + b, 0)
SumSeq(scores) == IF scores = << >> THEN 0 ELSE Head(scores) + SumSeq(Tail(scores))

RECURSIVE ScoresWhere(_, _, _, _)
\* the ratings pushed to the scores of entry `name` (every numeric rating when
\* table = "all": allScores)
ScoresWhere(ratings, table, name, split) ==
    IF ratings = << >> THEN << >>
    ELSE LET r == Head(ratings)
             rest == ScoresWhere(Tail(ratings), table, name, split)
             keys == KeysOf(r, table, split)
             pushes == IF table = "all" THEN 1
                       ELSE Cardinality({i \in DOMAIN keys : keys[i] = name})
         IN  IF r.isNumber THEN [i \in 1..pushes |-> r.rating] \o rest ELSE rest

RECURSIVE Flatten(_)
\* the elements of the sequences of seqs, in order
Flatten(seqs) == IF seqs = << >> THEN << >> ELSE Head(seqs) \o Flatten(Tail(seqs))

RECURSIVE FirstSeen(_, _)
\* the keys in order of first appearance, those of `seen` left out
FirstSeen(keys, seen) ==
    IF keys = << >> THEN << >>
    ELSE IF Head(keys) \in seen THEN FirstSeen(Tail(keys), seen)
    ELSE <<Head(keys)>> \o FirstSeen(Tail(keys), seen \cup {Head(keys)})

RECURSIVE AllKeys(_, _, _)
\* the keys the rows are counted for, row by row
AllKeys(ratings, table, split) ==
    IF ratings = << >> THEN << >>
    ELSE KeysOf(Head(ratings), table, split) \o AllKeys(Tail(ratings), table, split)

\* Object.entries order of artistMap / albumMap: keys by first appearance
KeysInOrder(ratings, table, seen, split) == FirstSeen(AllKeys(ratings, table, split), seen)

\* variant: the mean over every row, numeric or not
GlobalMean_AllRows(ratings) ==
    IF ratings = << >> THEN [num |-> 0, den |-> 1]
    ELSE [num |-> SumSeq(ScoresWhere(ratings, "all", "", FALSE)), den |-> Len(ratings)]

\* variant: the mean over the ratings as counted for the credited artists
GlobalMean_PerCredit(ratings) ==
    LET credited == [i \in DOMAIN ratings |->
                        [n \in DOMAIN SplitCredits(ArtistOf(ratings[i])) |-> ratings[i]]]
        allScores == ScoresWhere(Flatten(credited), "all", "", FALSE)
    IN  IF allScores = << >> THEN [num |-> 0, den |-> 1]
        ELSE [num |-> SumSeq(allScores), den |-> Len(allScores)]

\* allScores.length ? sum / length : 0
GlobalMean(ratings) ==
    LET allScores == ScoresWhere(ratings, "all", "", FALSE)
    IN  IF allScores = << >> THEN [num |-> 0, den |-> 1]
        ELSE [num |-> SumSeq(allScores), den |-> Len(allScores)]

\* Math.round(q * 1000): the nearest integer, halves upwards
Round1000(q) == (2000 * q.num + q.den) \div (2 * q.den)

\* variant: the adjusted score without the shrinkage term
Adjusted_NoShrinkage(n, total, c, globalMean) == [num |-> total, den |-> n]

\* (n * avg + C * globalMean) / (n + C), with avg = total / n
Adjusted(n, total, c, globalMean) ==
    [num |-> total * globalMean.den + c * globalMean.num,
     den |-> globalMean.den * (n + c)]

\* variant: the prior always weighs one rating more than C
Summary_HeavierPrior(name, scores, c, globalMean) ==
    LET n == Len(scores)
        total == SumSeq(scores)
    IN  [name |-> name, appearances |-> n,
         avgScore |-> Round1000([num |-> total, den |-> n]),
         adjustedScore |-> Round1000(Adjusted(n, total, c + 1, globalMean)),
         rank |-> 0]

\* the summary object built for one entry of artistMap / albumMap
Summary(name, scores, c, globalMean) ==
    LET n == Len(scores)
        total == SumSeq(scores)
    IN  [name |-> name, appearances |-> n,
         avgScore |-> Round1000([num |-> total, den |-> n]),
         adjustedScore |-> Round1000(Adjusted(n, total, c, globalMean)),
         rank |-> 0]

\* the value the identifier `artist` has on a page that defines such a global
GlobalArtist == "window.artist"

\* r.year || "" and r.albumArt || ""
YearOr(r) == IF "year" \in DOMAIN r THEN r.year ELSE ""
AlbumArtOr(r) == IF "albumArt" \in DOMAIN r THEN r.albumArt ELSE ""

\* the row that created the albumMap entry of album
FirstRowOf(ratings, album) ==
    ratings[CHOOSE i \in DOMAIN ratings :
               /\ AlbumOf(ratings[i]) = album
               /\ \A j \in 1..(i - 1) : AlbumOf(ratings[j]) # album]

\* artist, year and albumArt of an albumMap entry: `artist` is read from
\* the enclosing scopes, year and albumArt from the row that created the entry
AlbumFields(ratings, album) ==
    [artist |-> GlobalArtist, year |-> YearOr(FirstRowOf(ratings, album)),
     albumArt |-> AlbumArtOr(FirstRowOf(ratings, album))]

RECURSIVE Summaries(_, _, _, _, _)
\* Object.entries(map).map(...).filter(Boolean): entries without a numeric
\* rating are dropped
Summaries(keys, ratings, table, c, split) ==
    IF keys = << >> THEN << >>
    ELSE LET scores == ScoresWhere(ratings, table, Head(keys), split)
             rest == Summaries(Tail(keys), ratings, table, c, split)
             summary == Summary(Head(keys), scores, c, GlobalMean(ratings))
         IN  IF scores = << >> THEN rest
             ELSE IF table = "album"
             THEN <<summary @@ AlbumFields(ratings, Head(keys))>> \o rest
             ELSE <<summary>> \o rest

\* the comparator's verdict "a goes after b"
After(a, b, key, dir) == IF dir = "asc" THEN a[key] > b[key] ELSE a[key] < b[key]

RECURSIVE Insert(_, _, _, _)
\* x put behind every element it does not have to precede
Insert(sorted, x, key, dir) ==
    IF sorted = << >> THEN <<x>>
    ELSE IF After(Head(sorted), x, key, dir)
    THEN <<x>> \o sorted
    ELSE <<Head(sorted)>> \o Insert(Tail(sorted), x, key, dir)

RECURSIVE SortBy(_, _, _)
\* Array.prototype.sort with the comparator: a stable sort
SortBy(list, key, dir) ==
    IF list = << >> THEN << >>
    ELSE Insert(SortBy(SubSeq(list, 1, Len(list) - 1), key, dir),
                list[Len(list)], key, dir)

\* variant: the rank field is left as it was
ReRank_Skip(list) == list

\* list.forEach((a, i) => a.rank = i + 1)
ReRank(list) == [i \in 1..Len(list) |-> [list[i] EXCEPT !.rank = i]]

\* the artists / albums array of loadImportedData
Aggregate(ratings, table, c, split) ==
    ReRank(SortBy(Summaries(KeysInOrder(ratings, table, {}, split), ratings, table, c, split),
                  "adjustedScore", "desc"))

\* the page after loadImportedData(ratings) under the toggle value split.
\* The albumMap entry for a new album reads the identifier `artist`, which no
\* scope of the function binds: a ReferenceError on the first row unless the
\* page defines a global of that name.
AfterLoadImported(page, ratings, split, op) ==
    IF ratings # << >> /\ ~page.artistBound
    THEN [page EXCEPT !.rawRatings = ratings, !.usingImported = TRUE,
                      !.splitArtists = split, !.lastOp = op, !.importThrew = TRUE]
    ELSE [page EXCEPT
             !.rawRatings = ratings, !.usingImported = TRUE, !.splitArtists = split,
             !.lastOp = op, !.importThrew = FALSE,
             !.analyticsData =
                [artists |-> Aggregate(ratings, "artist", page.currentShrinkage, split),
                 albums |-> Aggregate(ratings, "album", page.currentShrinkage, split),
                 globalMean |-> GlobalMean(ratings),
                 loaded |-> TRUE]]

\* loadImportedData(ratings) with the rows of the imported file
LoadImportedData ==
    /\ analyticsPage' = AfterLoadImported(analyticsPage, importFile, splitArtists, "import")
    /\ UNCHANGED <<appVars, settingsDialog, ratedList>>

\* change of the Split Credits toggle (initSplitArtists) while imported data
\* is on display: the flag is read from the toggle and the rows are
\* aggregated again
SplitArtistsToggleChange ==
    /\ usingImported
    /\ analyticsPage' = AfterLoadImported(analyticsPage, rawRatings, ~splitArtists, "toggle")
    /\ UNCHANGED <<appVars, settingsDialog, ratedList>>

\* click on a sortable header of a table (initTableSort), data loaded
SortClick(table, key) ==
    /\ analyticsData.loaded
    /\ LET dir == IF sortIndicator[table] = [key |-> key, dir |-> "desc"]
                  THEN "asc" ELSE "desc"
           list == IF table = "artist" THEN analyticsData.artists
                                       ELSE analyticsData.albums
           sorted == ReRank(SortBy(list, key, dir))
       IN  analyticsPage' =
              [analyticsPage EXCEPT
                  !.sortIndicator = [sortIndicator EXCEPT ![table] = [key |-> key, dir |-> dir]],
                  !.analyticsData = IF table = "artist"
                                    THEN [analyticsData EXCEPT !.artists = sorted]
                                    ELSE [analyticsData EXCEPT !.albums = sorted],
                  !.lastOp = "sort"]
    /\ UNCHANGED <<appVars, settingsDialog, ratedList>>

\* the analytics page with the file to import, the shrinkage constant and
\* the page's globals as inputs
InitAnalytics ==
    /\ InitApp
    /\ analyticsPage \in
          {[PageOpened EXCEPT !.importFile = file, !.currentShrinkage = c,
                              !.artistBound = bound] :
              file \in RatingLists, c \in ShrinkageChoices, bound \in BOOLEAN}
    /\ settingsDialog = DialogClosed
    /\ ratedList = ListNotFollowed
    /\ enrichment = EnrichNotFollowed
    /\ resumeDelay = DelayNotFollowed

NextAnalytics ==
    \/ LoadImportedData
    \/ \E table \in {"artist", "album"}, key \in SortKeys : SortClick(table, key)

SpecAnalytics == InitAnalytics /\ [][NextAnalytics]_vars

\* ------------------------------------ analytics page: split artist credits

\* rows of an imported file with credits of one and of several names, with
\* and without a numeric rating, of two albums
CreditRows ==
    {[artist |-> a, album |-> al.album, rating |-> ra.rating, isNumber |-> ra.isNumber,
      year |-> al.year, albumArt |-> al.albumArt] :
        a \in {"X", "X, Y", "X, X"},
        ra \in {[rating |-> 10, isNumber |-> TRUE], [rating |-> 8, isNumber |-> TRUE],
                [rating |-> 8, isNumber |-> FALSE]},
        al \in {[album |-> "L", year |-> "1999", albumArt |-> "a.png"],
                [album |-> "L", year |-> "2001", albumArt |-> ""],
                [album |-> "M", year |-> "1999", albumArt |-> "a.png"]}}

CreditLists == UNION {[1..n -> CreditRows] : n \in 0..MaxRows}

\* the analytics page with the file to import, the state of the Split
\* Credits toggle and the page's globals as inputs
InitCredits ==
    /\ InitApp
    /\ analyticsPage \in
          {[PageOpened EXCEPT !.importFile = file, !.splitArtists = split,
                              !.artistBound = bound] :
              file \in CreditLists, split \in BOOLEAN, bound \in BOOLEAN}
    /\ settingsDialog = DialogClosed
    /\ ratedList = ListNotFollowed
    /\ enrichment = EnrichNotFollowed
    /\ resumeDelay = DelayNotFollowed

NextCredits ==
    \/ LoadImportedData
    \/ SplitArtistsToggleChange

SpecCredits == InitCredits /\ [][NextCredits]_vars

\* ------------------------------------ analytics page: custom chart builder
\* A value is kept exactly as a quotient; a rounded value is the integer
\* number of hundredths.

GroupBys == {"artist", "rating"}
Metrics == {"count", "avgRating", "totalScore", "adjustedScore"}
\* sortMode.split("-"): [sortKey, sortDir]
SortModes == [key : {"label", "value"}, dir : {"asc", "desc"}]
\* parseInt(customLimit.value) (0 stands for every falsy result, NaN included)
LimitInputs == {-1, 0, 1}
\* parseFloat(customMinRating.value), parseFloat(customMaxRating.value)
RatingBounds == {NaN, Num(9)}

ChartInputs ==
    [groupBy : GroupBys, metric : Metrics, sortMode : SortModes, limit : LimitInputs,
     minRating : RatingBounds, maxRating : RatingBounds]

\* r.rating >= minRating and r.rating <= maxRating for the bounds that are
\* numbers; a missing rating compares false with every number
InRatingRange(r, minRating, maxRating) ==
    /\ minRating.isNaN \/ (r.isNumber /\ r.rating >= minRating.v)
    /\ maxRating.isNaN \/ (r.isNumber /\ r.rating <= maxRating.v)

\* the two filter() calls on a copy of rawRatings
FilterByRange(ratings, minRating, maxRating) ==
    SelectSeq(ratings, LAMBDA r : InRatingRange(r, minRating, maxRating))

\* the key of the switch on groupBy (String(undefined) for a missing rating)
GroupKey(r, groupBy) ==
    CASE groupBy = "artist" -> ArtistOf(r)
      [] groupBy = "album" -> AlbumOf(r)
      [] groupBy = "rating" -> IF r.isNumber THEN ToString(r.rating) ELSE "undefined"

\* r.rating || 0
RatingOrZero(r) == IF r.isNumber THEN r.rating ELSE 0

RECURSIVE GroupKeysInOrder(_, _, _)
\* the keys of groups in the order they were created
GroupKeysInOrder(ratings, groupBy, seen) ==
    IF ratings = << >> THEN << >>
    ELSE LET k == GroupKey(Head(ratings), groupBy)
         IN  IF k \in seen THEN GroupKeysInOrder(Tail(ratings), groupBy, seen)
             ELSE <<k>> \o GroupKeysInOrder(Tail(ratings), groupBy, seen \cup {k})

\* keys that are array indices, in ascending numeric order
IndexKeys == <<"8", "10">>

\* Object.entries(groups): array-index keys first in ascending order, then
\* the other keys in creation order
EntriesOrder(keys) ==
    SelectSeq(IndexKeys, LAMBDA k : k \in Range(keys))
        \o SelectSeq(keys, LAMBDA k : k \notin Range(IndexKeys))

\* position of label.toLowerCase() among the labels in string order
LabelLower(label) ==
    CASE label = "10" -> 1 [] label = "8" -> 2 [] label = "undefined" -> 3
      [] label = "Unknown" -> 4 [] label = "L" -> 5 [] label = "X" -> 6
      [] label = "Y" -> 7

RECURSIVE GroupData(_, _, _)
\* groups[key] after the forEach: count and totalRating
GroupData(ratings, groupBy, key) ==
    IF ratings = << >> THEN [count |-> 0, totalRating |-> 0]
    ELSE LET rest == GroupData(Tail(ratings), groupBy, key)
             r == Head(ratings)
         IN  IF GroupKey(r, groupBy) = key
             THEN [count |-> rest.count + 1,
                   totalRating |-> rest.totalRating + RatingOrZero(r)]
             ELSE rest

\* the switch on metric
MetricValue(d, metric, c, globalMean) ==
    CASE metric = "count" -> [num |-> d.count, den |-> 1]
      [] metric = "avgRating" -> [num |-> d.totalRating, den |-> d.count]
      [] metric = "totalScore" -> [num |-> d.totalRating, den |-> 1]
      [] metric = "adjustedScore" -> Adjusted(d.count, d.totalRating, c, globalMean)

\* Math.round(q * 100): the nearest integer, halves upwards
Round100(q) == (200 * q.num + q.den) \div (2 * q.den)

\* entries: one { label, value } per group
ChartEntries(filtered, groupBy, metric, c, globalMean) ==
    LET keys == EntriesOrder(GroupKeysInOrder(filtered, groupBy, {}))
    IN  [i \in DOMAIN keys |->
            [label |-> keys[i], labelLower |-> LabelLower(keys[i]),
             value |-> Round100(MetricValue(GroupData(filtered, groupBy, keys[i]),
                                            metric, c, globalMean))]]

\* entries.slice(0, limit): a negative limit counts from the end
Slice(entries, limit) ==
    LET n == Len(entries)
        end == IF limit >= 0 THEN (IF limit < n THEN limit ELSE n)
               ELSE (IF n + limit > 0 THEN n + limit ELSE 0)
    IN  SubSeq(entries, 1, end)

\* click on Generate: generateCustomChart() up to the entries handed to the
\* chart.  It returns before grouping when the filter leaves no record, and
\* reads analyticsData.globalMean, a TypeError while analyticsData is null.
GenerateCustomChart ==
    LET in == chartForm
        filtered == FilterByRange(rawRatings, in.minRating, in.maxRating)
        limit == ParseIntOr(in.limit, 20)
        sortBy == IF in.sortMode.key = "label" THEN "labelLower" ELSE "value"
        chart == IF filtered = << >> THEN customChart
                 ELSE IF ~analyticsData.loaded THEN [made |-> FALSE, threw |-> TRUE]
                 ELSE [made |-> TRUE, threw |-> FALSE,
                       entries |-> Slice(SortBy(ChartEntries(filtered, in.groupBy, in.metric,
                                                             currentShrinkage,
                                                             GlobalMean(rawRatings)),
                                                sortBy, in.sortMode.dir),
                                         limit)]
    IN  /\ analyticsPage' = [analyticsPage EXCEPT !.customChart = chart]
        /\ UNCHANGED <<appVars, settingsDialog, ratedList>>

\* imported files for the chart builder: every row names the album
ChartRatingLists == {l \in RatingLists : \A i \in DOMAIN l : l[i].album = "L"}

\* the analytics page with the file to import and the chart builder filled in
InitChart ==
    /\ InitApp
    /\ analyticsPage \in
          {[PageOpened EXCEPT !.importFile = file, !.currentShrinkage = c,
                              !.artistBound = bound, !.chartForm = form] :
              file \in ChartRatingLists, c \in ShrinkageChoices, bound \in BOOLEAN,
              form \in ChartInputs}
    /\ settingsDialog = DialogClosed
    /\ ratedList = ListNotFollowed
    /\ enrichment = EnrichNotFollowed
    /\ resumeDelay = DelayNotFollowed

NextChart ==
    \/ LoadImportedData
    \/ GenerateCustomChart

SpecChart == InitChart /\ [][NextChart]_vars

\* ----------------------------------------- analytics page: smart search
\* A string is a sequence of one-character strings.

\* longest enumerated query
MaxQueryLen == 4

QueryChars == {"a", "B", " ", "|", "-", "/", "("}

InRainbows == <<"I", "n", " ", "R", "a", "i", "n", "b", "o", "w", "s">>
Rainbows == <<"r", "a", "i", "n", "b", "o", "w", "s">>

Queries ==
    UNION {[1..n -> QueryChars] : n \in 0..MaxQueryLen}
        \cup {Rainbows, <<"-">> \o Rainbows}

\* the fields handed to smartMatch; << >> is a missing (falsy) field
FieldLists ==
    {<<InRainbows>>, <<<<"a", "B">>>>, <<<<"b">>, << >>>>, <<<<"A", "-", "(">>>>}

\* toLowerCase() of one character
ToLower(ch) ==
    CASE ch = "A" -> "a" [] ch = "B" -> "b" [] ch = "I" -> "i" [] ch = "R" -> "r"
      [] OTHER -> ch

\* variant: the case is kept
Lower_Keep(str) == str

\* str.toLowerCase()
Lower(str) == [i \in DOMAIN str |-> ToLower(str[i])]

RECURSIVE JoinFields(_)
\* fields.map(f => (f || "").toLowerCase()).join(" ")
JoinFields(fields) ==
    IF fields = << >> THEN << >>
    ELSE IF Len(fields) = 1 THEN Lower(fields[1])
    ELSE Lower(Head(fields)) \o <<" ">> \o JoinFields(Tail(fields))

\* text.includes(value)
Contains(text, value) ==
    \E i \in 0..(Len(text) - Len(value)) : SubSeq(text, i + 1, i + Len(value)) = value

\* query.split("|").map(g => g.trim()).filter(Boolean)
OrGroups(query) ==
    LET parts == SplitOn(query, "|")
    IN  SelectSeq([i \in DOMAIN parts |-> Trim(parts[i])], LAMBDA g : g # << >>)

NoMatch == [ok |-> FALSE, kind |-> "none", text |-> << >>, next |-> 0]

\* the alternatives "([^"]*)" | /(.*?)/([i]?) | (\S+) of the tokenizer's
\* pattern, tried in this order at position q of the group
MatchAt(g, q) ==
    IF q > Len(g) THEN NoMatch
    ELSE IF g[q] = "\"" /\ FirstAt(g, "\"", q + 1) # 0
    THEN LET r == FirstAt(g, "\"", q + 1)
         IN  [ok |-> TRUE, kind |-> "quoted", text |-> SubSeq(g, q + 1, r - 1),
              next |-> r + 1]
    ELSE IF g[q] = "/" /\ FirstAt(g, "/", q + 1) # 0
    THEN LET r == FirstAt(g, "/", q + 1)
         IN  [ok |-> TRUE, kind |-> "regex", text |-> SubSeq(g, q + 1, r - 1),
              next |-> IF r < Len(g) /\ g[r + 1] = "i" THEN r + 2 ELSE r + 1]
    ELSE IF g[q] # " "
    THEN LET e == IF FirstAt(g, " ", q) = 0 THEN Len(g) ELSE FirstAt(g, " ", q) - 1
         IN  [ok |-> TRUE, kind |-> "bare", text |-> SubSeq(g, q, e), next |-> e + 1]
    ELSE NoMatch

\* one match of the pattern starting at position p: ([!-]?) is taken when
\* an alternative matches behind it, else given back
TokenAt(g, p) ==
    IF g[p] \in {"!", "-"} /\ MatchAt(g, p + 1).ok
    THEN [negate |-> TRUE, m |-> MatchAt(g, p + 1)]
    ELSE [negate |-> FALSE, m |-> MatchAt(g, p)]

RECURSIVE RawTokens(_, _)
\* the matches re.exec finds in the group from position p on
RawTokens(g, p) ==
    IF p > Len(g) THEN << >>
    ELSE LET t == TokenAt(g, p)
         IN  IF t.m.ok THEN <<t>> \o RawTokens(g, t.m.next)
             ELSE RawTokens(g, p + 1)

\* new RegExp(pattern, flags) does not throw.  Of the characters modelled,
\* "(" opens a group that is never closed; the others stand for themselves.
ValidPattern(pattern) == \A i \in DOMAIN pattern : pattern[i] # "("

\* variant: a pattern that does not compile gives a token that never hits
CompileToken_NoFallback(t) ==
    IF t.m.kind = "regex"
    THEN IF ValidPattern(t.m.text)
         THEN [negate |-> t.negate, type |-> "regex", value |-> t.m.text]
         ELSE [negate |-> t.negate, type |-> "never", value |-> t.m.text]
    ELSE [negate |-> t.negate,
          type |-> IF t.m.kind = "quoted" THEN "exact" ELSE "contains",
          value |-> Lower(t.m.text)]

\* the token pushed for a match: exact, regex (exact on the pattern text when
\* the pattern does not compile) or contains
CompileToken(t) ==
    IF t.m.kind = "regex"
    THEN IF ValidPattern(t.m.text)
         THEN [negate |-> t.negate, type |-> "regex", value |-> t.m.text]
         ELSE [negate |-> t.negate, type |-> "exact", value |-> Lower(t.m.text)]
    ELSE [negate |-> t.negate,
          type |-> IF t.m.kind = "quoted" THEN "exact" ELSE "contains",
          value |-> Lower(t.m.text)]

\* tok.value.test(text) for a pattern of literal characters with flag i
RegexTest(pattern, text) == Contains(Lower(text), Lower(pattern))

\* tok.negate ? !hit : hit
TokenMatches(tok, text) ==
    LET hit == IF tok.type = "regex" THEN RegexTest(tok.value, text)
               ELSE IF tok.type = "never" THEN FALSE
               ELSE Contains(text, tok.value)
    IN  IF tok.negate THEN ~hit ELSE hit

\* smartMatch(query, ...fields)
SmartMatch(query, fields) ==
    LET text == JoinFields(fields)
        orGroups == OrGroups(query)
    IN  IF query = << >> THEN TRUE
        ELSE \E gi \in DOMAIN orGroups :
                LET tokens == RawTokens(orGroups[gi], 1)
                IN  \A ti \in DOMAIN tokens :
                       TokenMatches(CompileToken(tokens[ti]), text)

\* a call of smartMatch returns
SmartMatchCall ==
    /\ smResult = "pending"
    /\ analyticsPage' =
          [analyticsPage EXCEPT
              !.smResult = IF SmartMatch(smQuery, smFields) THEN "true" ELSE "false"]
    /\ UNCHANGED <<appVars, settingsDialog, ratedList>>

InitSearch ==
    /\ InitApp
    /\ analyticsPage \in
          {[PageOpened EXCEPT !.smQuery = query, !.smFields = fields] :
              query \in Queries, fields \in FieldLists}
    /\ settingsDialog = DialogClosed
    /\ ratedList = ListNotFollowed
    /\ enrichment = EnrichNotFollowed
    /\ resumeDelay = DelayNotFollowed

NextSearch == SmartMatchCall

SpecSearch == InitSearch /\ [][NextSearch]_vars

\* ------------------------------------------ main page: the rated-songs list
\* allRatings is kept as the sequence of the pages concatenated: a page is
\* the slice from..to (1-based) of the store's result list for a sort order.

\* loadRatings() calls in one run
MaxLoads == 4

\* const PAGE_SIZE
PAGE_SIZE == 50

\* values of the sort select
SortOrders == {"date", "rating"}
\* sizes of the store
RatingCounts == {3, 120}

RECURSIVE RatingsLength(_)
\* allRatings.length
RatingsLength(pages) ==
    IF pages = << >> THEN 0
    ELSE (Head(pages).to - Head(pages).from + 1) + RatingsLength(Tail(pages))

\* allRatings.concat(data.ratings || []) for the response to req: the slice
\* of `limit` ratings behind `offset`
ConcatPage(pages, req) ==
    LET from == req.offset + 1
        to == IF req.offset + PAGE_SIZE < ratingCount THEN req.offset + PAGE_SIZE
              ELSE ratingCount
    IN  IF from > to THEN pages
        ELSE Append(pages, [full |-> req.full, sortBy |-> req.sortBy,
                            from |-> from, to |-> to])

\* loadRatings() up to its await: the first load, the search debounce timer,
\* a change of the sort select (to sortBy) or the refresh after a rating was
\* saved, edited or deleted
LoadRatings(sortBy) ==
    /\ loadsStarted < MaxLoads
    /\ ratedList' =
          [ratedList EXCEPT
              !.loadsStarted = loadsStarted + 1,
              !.lastFullLoad = loadsStarted + 1,
              !.sortSelect = sortBy,
              !.currentOffset = 0,
              !.allRatings = << >>,
              !.ratingsLoads = ratingsLoads \cup
                  {RatingsRequest(loadsStarted + 1, loadsStarted + 1, 0, sortBy)}]
    /\ UNCHANGED <<appVars, analyticsPage, settingsDialog>>

\* click on Load More: loadRatings(true) up to its await
LoadMoreRatings ==
    /\ loadMoreShown
    /\ loadsStarted < MaxLoads
    /\ ratedList' =
          [ratedList EXCEPT
              !.loadsStarted = loadsStarted + 1,
              !.ratingsLoads = ratingsLoads \cup
                  {RatingsRequest(loadsStarted + 1, lastFullLoad, currentOffset, sortSelect)}]
    /\ UNCHANGED <<appVars, analyticsPage, settingsDialog>>

\* loadRatings() after its await (ok: data is not null), renderRatedSongs()
\* included
LoadRatingsResult(req, ok) ==
    /\ req \in ratingsLoads
    /\ LET pages == ConcatPage(allRatings, req)
           hasMore == (req.offset + PAGE_SIZE < ratingCount)
       IN  ratedList' =
              IF ok
              THEN [ratedList EXCEPT
                       !.ratingsLoads = ratingsLoads \ {req},
                       !.allRatings = pages,
                       !.hasMoreRatings = hasMore,
                       !.currentOffset = RatingsLength(pages),
                       !.loadMoreShown = (pages # << >> /\ hasMore)]
              ELSE [ratedList EXCEPT !.ratingsLoads = ratingsLoads \ {req}]
    /\ UNCHANGED <<appVars, analyticsPage, settingsDialog>>

\* the main page just opened, the store holding some number of ratings
InitRatings ==
    /\ InitApp
    /\ analyticsPage = PageClosed
    /\ settingsDialog = DialogClosed
    /\ ratedList \in {ListAtStart(count) : count \in RatingCounts}
    /\ enrichment = EnrichNotFollowed
    /\ resumeDelay = DelayNotFollowed

NextRatings ==
    \/ \E sortBy \in SortOrders : LoadRatings(sortBy)
    \/ LoadMoreRatings
    \/ \E req \in ratingsLoads, ok \in BOOLEAN : LoadRatingsResult(req, ok)

SpecRatings == InitRatings /\ [][NextRatings]_vars

\* ------------------------------------------- settings: save, reload, load

\* values typed into the rating range inputs
RangeValues == {-3, -1, 0, 2}
\* values typed into the poll-pause (seconds) and buffer-size inputs
PauseSecValues == {0, 5}
MaxRecentValues == {0, 3}

\* numeric: both range inputs hold text that parseInt reads as a number
\* (min and max are then the numbers read)
SettingsForms ==
    [min : RangeValues, max : RangeValues, pollPauseSec : PauseSecValues,
     maxRecent : MaxRecentValues, numeric : BOOLEAN]

\* variant: saveSettings() tests the inputs for numbers only
RangeRejected_NaNOnly(form) == ~form.numeric

\* saveSettings(): isNaN(min) || isNaN(max), or min >= max
RangeRejected(form) == ~form.numeric \/ form.min >= form.max

\* the record POST /api/settings keeps and GET /api/settings returns
StoreAfterPost(posted) ==
    [saved |-> TRUE, ratingMin |-> posted.ratingMin, ratingMax |-> posted.ratingMax,
     pollPauseMs |-> posted.pollPauseMs, maxRecent |-> posted.maxRecent,
     sidebarMode |-> posted.sidebarMode]

\* state of the main page other than appSettings and the settings request
appVarsButSettings ==
    <<currentTrack, recentSongIds, pollInterval, activeIntervals,
      pollPauseTimeout, pausePollToggle, nowPlayingInFlight,
      unratedPost, altVersionsList, altListLoads, otherVersionsList,
      lastPoll, pollRepeated, lastManual, handlerVars, enrichment, resumeDelay>>

\* saveSettings() with the dialog's values, min < max (it returns before the
\* request otherwise), the store answers success with what it kept; no track
\* is displayed, so no sidebar is reloaded
SaveSettingsStored ==
    LET min == settingsForm.min
        max == settingsForm.max
        pollPauseSec == ParseIntOr(settingsForm.pollPauseSec, 10)
        maxRecent == ParseIntOr(settingsForm.maxRecent, 5)
        sidebarMode == appSettings.sidebarMode
        posted == [ratingMin |-> min, ratingMax |-> max,
                   pollPauseMs |-> pollPauseSec * 1000, maxRecent |-> maxRecent,
                   sidebarMode |-> sidebarMode]
        settings == StoreAfterPost(posted)
    IN  /\ ~RangeRejected(settingsForm)
        /\ currentTrack = NullTrack
        /\ settingsDialog' = [settingsDialog EXCEPT !.settingsStore = settings,
                                                    !.settingsToast = "success",
                                                    !.settingsPosted = TRUE]
        /\ appSettings' =
              [ratingMin |-> ParseIntOr(settings.ratingMin, min),
               ratingMax |-> ParseIntOr(settings.ratingMax, max),
               pollPauseMs |-> ParseIntOr(settings.pollPauseMs, pollPauseSec * 1000),
               maxRecent |-> ParseIntOr(settings.maxRecent, maxRecent),
               sidebarMode |-> settings.sidebarMode]
        /\ UNCHANGED <<loadSettingsPending, appVarsButSettings, analyticsPage, ratedList>>

\* saveSettings() with a range it rejects: a toast, then return
SaveSettingsRejected ==
    /\ RangeRejected(settingsForm)
    /\ settingsDialog' = [settingsDialog EXCEPT !.settingsToast = "error",
                                                !.settingsPosted = FALSE]
    /\ UNCHANGED <<appSettings, loadSettingsPending, appVarsButSettings, analyticsPage,
                   ratedList>>

\* a step other than saveSettings(): no toast of it, no request of it
NoSettingsCall ==
    settingsDialog' = [settingsDialog EXCEPT !.settingsToast = "none",
                                             !.settingsPosted = FALSE]

\* the page is opened again: the module state of line 14, loadSettings()
\* outstanding
ReloadPage ==
    /\ ~loadSettingsPending
    /\ loadSettingsPending' = TRUE
    /\ appSettings' = [ratingMin |-> 1, ratingMax |-> 10, pollPauseMs |-> 10000,
                       maxRecent |-> DefaultMaxRecent, sidebarMode |-> "album"]
    /\ NoSettingsCall
    /\ UNCHANGED <<appVarsButSettings, analyticsPage, ratedList>>

\* loadSettings() after its await with the stored settings as data (nothing
\* stored: the request is answered without data)
LoadSettingsStored ==
    /\ loadSettingsPending
    /\ loadSettingsPending' = FALSE
    /\ appSettings' =
          IF settingsStore.saved
          THEN [ratingMin |-> ParseIntOr(settingsStore.ratingMin, -3),
                ratingMax |-> ParseIntOr(settingsStore.ratingMax, 3),
                pollPauseMs |-> ParseIntOr(settingsStore.pollPauseMs, 10000),
                maxRecent |-> ParseIntOr(settingsStore.maxRecent, 5),
                sidebarMode |-> settingsStore.sidebarMode]
          ELSE appSettings
    /\ NoSettingsCall
    /\ UNCHANGED <<appVarsButSettings, analyticsPage, ratedList>>

\* the main page idle (no track, no poll outstanding), the dialog filled in
InitSettings ==
    /\ InitApp
    /\ analyticsPage = PageClosed
    /\ settingsDialog \in {DialogWith(form) : form \in SettingsForms}
    /\ ratedList = ListNotFollowed
    /\ enrichment = EnrichNotFollowed
    /\ resumeDelay = DelayNotFollowed

NextSettings ==
    \/ SaveSettingsStored
    \/ SaveSettingsRejected
    \/ ReloadPage
    \/ LoadSettingsStored

SpecSettings == InitSettings /\ [][NextSettings]_vars

\* ------------------------------------------------------------- properties

\* the step processes a now-playing response
PollStep == nowPlayingInFlight' < nowPlayingInFlight

\* C1: whenever a track is displayed, its videoId is not in recentSongIds.
C1_CurrentNotRecent ==
    currentTrack # NullTrack => currentTrack.videoId \notin Range(recentSongIds)

\* C1 witness: a track is displayed while two other ids are remembered
C1_Witness == currentTrack # NullTrack /\ Len(recentSongIds) = 2

\* C2 (as claimed): recentSongIds never holds more than maxRecent ids.
C2_RecentWithinMax == Len(recentSongIds) <= appSettings.maxRecent

C4_ManualSelectWins ==
    lastManual # NoId => (currentTrack.videoId = lastManual /\ recentSongIds = << >>)

\* C5: a poll result carrying the videoId of the poll result before it posts
\* nothing to /api/unrated, leaves recentSongIds as it is and keeps the
\* displayed track's videoId.
C5_RepeatedPollIsRefresh ==
    [][(PollStep /\ lastPoll # NoId /\ lastPoll' = lastPoll)
           => /\ recentSongIds' = recentSongIds
              /\ unratedPost' = NoId
              /\ currentTrack'.videoId = currentTrack.videoId]_vars

\* C5 witness: the id of the displayed track was observed twice in a row while
\* recentSongIds held an id
C5_Witness ==
    pollRepeated /\ lastPoll = currentTrack.videoId /\ recentSongIds # << >>

\* C6: a poll observation accepted while another track is displayed appends the
\* outgoing id to recentSongIds, evicts the oldest id if the length then
\* exceeds maxRecent, and becomes the displayed track; with maxRecent = 3 the
\* polls A, B, A, C from the empty session give A; B with [A]; B with [A]; C
\* with [A, B].
C6_AcceptPushesOutgoing ==
    [][PollStep =>
        LET cur    == currentTrack.videoId
            obs    == lastPoll'
            pushed == Append(recentSongIds, cur)
        IN  /\ (/\ currentTrack # NullTrack /\ obs # NoId /\ obs # cur
                /\ obs \notin Range(recentSongIds))
                => /\ currentTrack'.videoId = obs
                   /\ recentSongIds' = IF Len(pushed) > appSettings.maxRecent
                                       THEN Tail(pushed) ELSE pushed
            /\ (currentTrack = NullTrack /\ recentSongIds = << >> /\ obs = "A")
                => (currentTrack'.videoId = "A" /\ recentSongIds' = << >>)
            /\ (/\ cur = "A" /\ recentSongIds = << >>
                /\ appSettings.maxRecent = 3 /\ obs = "B")
                => (currentTrack'.videoId = "B" /\ recentSongIds' = <<"A">>)
            /\ (cur = "B" /\ recentSongIds = <<"A">> /\ obs = "A")
                => (currentTrack' = currentTrack /\ recentSongIds' = <<"A">>)
            /\ (/\ cur = "B" /\ recentSongIds = <<"A">>
                /\ appSettings.maxRecent = 3 /\ obs = "C")
                => (currentTrack'.videoId = "C" /\ recentSongIds' = <<"A", "B">>)
      ]_vars

\* C6 witness: the end of the scenario, C displayed after A and B
C6_Witness ==
    /\ currentTrack.videoId = "C"
    /\ lastPoll = "C"
    /\ recentSongIds = <<"A", "B">>
    /\ appSettings.maxRecent = 3

\* C7 (as claimed): when a displayed track that is neither rated nor recorded
\* as unrated stops being the displayed track, a POST /api/unrated for its
\* videoId is issued.
C7_UnratedAlwaysCaptured ==
    [][(/\ currentTrack # NullTrack
        /\ ~currentTrack.alreadyRated /\ ~currentTrack.alreadyUnrated
        /\ currentTrack'.videoId # currentTrack.videoId)
           => unratedPost' = currentTrack.videoId]_vars

\* C8 (as claimed): no two /api/now-playing requests are in flight together
\* (so their results are applied in the order they were issued).
C8_PollsSequential == nowPlayingInFlight <= 1

\* C9 (as claimed): a manual selection made while a poll is in flight makes
\* the clicked track the displayed one, and the poll result processed next is
\* reconciled against the clicked track.
C9_ManualWinsOverPoll ==
    [][/\ (lastManual' # NoId /\ nowPlayingInFlight' > 0)
           => currentTrack'.videoId = lastManual'
       /\ (PollStep /\ lastManual # NoId /\ lastPoll' # NoId)
           => IF lastPoll' = lastManual
              THEN /\ currentTrack'.videoId = lastManual
                   /\ recentSongIds' = recentSongIds
                   /\ unratedPost' = NoId
              ELSE IF lastPoll' \in Range(recentSongIds)
              THEN currentTrack'.videoId = lastManual
              ELSE currentTrack'.videoId = lastPoll'
      ]_vars

\* C10 (as claimed): after a manual selection with the toggle unchecked, no
\* poll result replaces or clears the selected track while the auto-resume
\* timer is pending and no other user action happened.
C10_PausedAfterManualSelect ==
    [][(/\ lastManual # NoId /\ currentTrack.videoId = lastManual
        /\ pollPauseTimeout = "pending" /\ ~pausePollToggle
        /\ PollStep)
           => currentTrack'.videoId = lastManual]_vars

\* C11 (as claimed): while the Pause Polling toggle is checked no recurring
\* poll timer and no auto-resume timer is live, and no step taken with the
\* toggle checked issues a /api/now-playing request or starts a timer.
C11_ToggleStopsPolling ==
    [][(pausePollToggle /\ pausePollToggle')
           => /\ activeIntervals' = 0
              /\ pollPauseTimeout' = "null"
              /\ nowPlayingInFlight' <= nowPlayingInFlight]_vars

\* C19 (as claimed): no handler's continuation ends with an uncaught error,
\* whatever poll results arrive while a rating request is outstanding.
C19_NoUncaughtError == ~uncaught

\* ------------------------------------------- properties: rating handlers

\* the step is the continuation of submitRating() after its await
RatingResultStep == ratingPending /\ ~ratingPending'

\* C22 (as claimed): when the answer to a rating request arrives, the
\* displayed track is marked as rated only if it is the track whose videoId
\* the request carried, whatever polls changed the displayed track meanwhile.
C22_ResultAppliedToRatedTrack ==
    [][(RatingResultStep /\ currentTrack' # currentTrack)
           => currentTrack.videoId = ratingVideoId]_vars

\* C23 (as claimed): no request to /api/unrated is issued for a track whose
\* rating was saved in this session, even when a now-playing response
\* produced before the rating was stored is applied after it.
C23_SavedNeverCaptured ==
    unratedPost # NoId => unratedPost \notin savedRatings

\* ------------------------------------ properties: capture, memory, flicker

\* C24 (as claimed): recentSongIds is emptied only by a manual selection; a
\* NoTrack or failed poll and a poll observation accepted while no track is
\* displayed leave it as it is.
C24_OnlyManualSelectionEmpties ==
    [][/\ (recentSongIds # << >> /\ recentSongIds' = << >>) => lastManual' # NoId
       /\ (PollStep /\ (lastPoll' = NoId \/ currentTrack = NullTrack))
             => recentSongIds' = recentSongIds]_vars

OutgoingUncaptured ==
    /\ currentTrack # NullTrack
    /\ ~currentTrack.alreadyRated
    /\ ~currentTrack.alreadyUnrated

\* the step is a click on a search result or a sidebar item: of the steps
\* that keep or set lastManual, the others issue or answer a request
ClickStep ==
    /\ lastManual' # NoId
    /\ nowPlayingInFlight' = nowPlayingInFlight
    /\ loadSettingsPending' = loadSettingsPending
    /\ altListLoads \subseteq altListLoads'
    /\ otherVersionsList' \in {otherVersionsList, "loading"}

PollSwitch ==
    /\ PollStep
    /\ currentTrack # NullTrack
    /\ lastPoll' # NoId
    /\ lastPoll' # currentTrack.videoId

\* C26: on a poll-driven switch from a displayed track to a new one a
\* request to /api/unrated carrying the outgoing track's videoId is issued
\* exactly when the outgoing track is neither rated nor recorded as unrated;
\* it is issued with the outgoing track (before currentTrack is replaced),
\* and the switch completes in the same step, independent of the request's
\* outcome.
C26_PollSwitchCapturesOutgoing ==
    [][(PollSwitch /\ lastPoll' \notin Range(recentSongIds))
           => /\ unratedPost' = IF OutgoingUncaptured THEN currentTrack.videoId ELSE NoId
              /\ currentTrack'.videoId = lastPoll'
              /\ recentSongIds' # recentSongIds]_vars

\* C26 witness: a poll has just replaced an uncaptured track, whose videoId
\* went out to /api/unrated and into recentSongIds
C26_Witness ==
    /\ lastPoll # NoId
    /\ currentTrack.videoId = lastPoll
    /\ unratedPost # NoId
    /\ recentSongIds # << >>
    /\ unratedPost = recentSongIds[Len(recentSongIds)]

\* C27: a poll observation that differs from the displayed track and whose
\* videoId is in recentSongIds is discarded: currentTrack with its metadata,
\* recentSongIds and the sidebars stay as they are and no request to
\* /api/unrated is issued.
C27_FlickerDiscarded ==
    [][(PollSwitch /\ lastPoll' \in Range(recentSongIds))
           => /\ currentTrack' = currentTrack
              /\ recentSongIds' = recentSongIds
              /\ unratedPost' = NoId
              /\ UNCHANGED sidebarVars]_vars

\* C27 witness: the last poll result named a remembered track while an
\* uncaptured other track was, and still is, displayed
C27_Witness ==
    /\ lastPoll \in Range(recentSongIds)
    /\ currentTrack # NullTrack
    /\ currentTrack.videoId # lastPoll
    /\ ~currentTrack.alreadyRated
    /\ ~currentTrack.alreadyUnrated
    /\ unratedPost = NoId

\* ------------------------------------------ properties: rated-songs list

\* positions i < j of allRatings hold the same rating of the same result list
SharesRating(i, j) ==
    /\ allRatings[i].sortBy = allRatings[j].sortBy
    /\ allRatings[i].from <= allRatings[j].to
    /\ allRatings[j].from <= allRatings[i].to

\* C28 (as claimed): once every loadRatings() call has completed, allRatings
\* holds no rating twice and only pages requested by, or appended to, the
\* load that last started afresh.
C28_ListIsLatestLoadOnce ==
    ratingsLoads = {} =>
        /\ \A i, j \in DOMAIN allRatings : i < j => ~SharesRating(i, j)
        /\ \A i \in DOMAIN allRatings : allRatings[i].full = lastFullLoad

\* ------------------------------------------------ properties: analytics page

\* positions of the numeric ratings counted for entry `name` of a table
NumericAt(table, name) ==
    {i \in DOMAIN rawRatings :
        rawRatings[i].isNumber /\ (table = "all" \/ KeyOf(rawRatings[i], table) = name)}

RECURSIVE TotalAt(_)
TotalAt(idx) ==
    IF idx = {} THEN 0
    ELSE LET i == CHOOSE j \in idx : TRUE
         IN  rawRatings[i].rating + TotalAt(idx \ {i})

\* v thousandths is the quotient num / den rounded to three decimals
IsRounded(v, num, den) ==
    LET d == v * den - 1000 * num
    IN  2 * d <= den /\ -2 * d <= den

\* the summary s of a table carries (n*avg + C*mu)/(n + C) in adjustedScore
HasAdjustedScore(s, table) ==
    LET n == Cardinality(NumericAt(table, s.name))
        total == TotalAt(NumericAt(table, s.name))
        bigN == Cardinality(NumericAt("all", ""))
        bigS == TotalAt(NumericAt("all", ""))
    IN  /\ n > 0
        /\ s.appearances = n
        /\ IsRounded(s.adjustedScore, total * bigN + currentShrinkage * bigS,
                     bigN * (n + currentShrinkage))

TableOf(table) == IF table = "artist" THEN analyticsData.artists ELSE analyticsData.albums

IsSortedBy(list, key, dir) ==
    \A i, j \in DOMAIN list : i < j => ~After(list[i], list[j], key, dir)

\* rank fields are 1..N in list order
IsRanked(list) == \A i \in DOMAIN list : list[i].rank = i

\* position of the first row of the ratings counted for entry `name`
FirstRow(ratings, table, name) ==
    CHOOSE i \in DOMAIN ratings :
        /\ KeyOf(ratings[i], table) = name
        /\ \A j \in 1..(i - 1) : KeyOf(ratings[j], table) # name

\* C14 (as claimed): the artist and album lists held in analyticsData are
\* sorted by adjustedScore descending with ranks 1..N in that order, after
\* aggregation and after any header sort clicks.
C14_AlwaysSortedByAdjusted ==
    analyticsData.loaded =>
        \A table \in {"artist", "album"} :
           IsSortedBy(TableOf(table), "adjustedScore", "desc") /\ IsRanked(TableOf(table))

\* C14 (amended): the rank fields of both lists are always 1..N in list
\* order.  After aggregation both lists are sorted by adjustedScore
\* descending, ties in order of first appearance.  A header sort click sorts
\* that table's list by the clicked key (descending, or ascending when the
\* header was already sorted descending), keeps the summaries and leaves the
\* other table's list as it is.
C14_SortedAsLastRequested ==
    [][LET Tbl(d, t) == IF t = "artist" THEN d.artists ELSE d.albums
           Unranked(l) == {[l[i] EXCEPT !.rank = 0] : i \in DOMAIN l}
       IN  analyticsData'.loaded =>
           /\ \A t \in {"artist", "album"} : IsRanked(Tbl(analyticsData', t))
           /\ lastOp' = "import" =>
                 \A t \in {"artist", "album"} :
                    LET l == Tbl(analyticsData', t)
                    IN  /\ IsSortedBy(l, "adjustedScore", "desc")
                        /\ \A i, j \in DOMAIN l :
                              (i < j /\ l[i].adjustedScore = l[j].adjustedScore)
                                 => FirstRow(rawRatings', t, l[i].name)
                                      < FirstRow(rawRatings', t, l[j].name)
           /\ \A t \in {"artist", "album"} :
                 IF sortIndicator'[t] # sortIndicator[t]
                 THEN /\ IsSortedBy(Tbl(analyticsData', t), sortIndicator'[t].key,
                                    sortIndicator'[t].dir)
                      /\ sortIndicator'[t].dir =
                            IF sortIndicator[t] = [key |-> sortIndicator'[t].key,
                                                   dir |-> "desc"]
                            THEN "asc" ELSE "desc"
                      /\ Unranked(Tbl(analyticsData', t)) = Unranked(Tbl(analyticsData, t))
                      /\ Len(Tbl(analyticsData', t)) = Len(Tbl(analyticsData, t))
                 ELSE lastOp' = "sort" => Tbl(analyticsData', t) = Tbl(analyticsData, t)
      ]_vars

\* C14 witness: after a header click the artist list is ranked 1..N in an
\* order that is not adjustedScore descending
C14_Witness ==
    /\ analyticsData.loaded /\ lastOp = "sort"
    /\ Len(analyticsData.artists) = 2
    /\ IsRanked(analyticsData.artists)
    /\ ~IsSortedBy(analyticsData.artists, "adjustedScore", "desc")

\* C15 (as claimed): loadImportedData never throws; every call completes and
\* produces analyticsData.
C15_ImportNeverThrows ==
    lastOp = "import" => (~importThrew /\ analyticsData.loaded)

\* ------------------------------------------------- properties: smart search

\* the query holds a character other than blanks and '|'
HasToken(query) == \E i \in DOMAIN query : query[i] \notin {" ", "|"}

\* the query is made of bare and '-' tokens only
IsPlain(query) == \A i \in DOMAIN query : query[i] \notin {"/", "\"", "!"}

\* the blank-separated words of a group
Words(group) == SelectSeq(SplitOn(group, " "), LAMBDA w : w # << >>)

\* a bare word is satisfied by containment, a word behind '-' by absence
WordSatisfied(w, text) ==
    IF Len(w) > 1 /\ w[1] = "-" THEN ~Contains(text, Lower(Tail(w)))
    ELSE Contains(text, Lower(w))

\* some '|'-separated group with a word has all of its words satisfied
SomeGroupSatisfied(query, text) ==
    LET groups == SplitOn(query, "|")
    IN  \E gi \in DOMAIN groups :
           /\ Words(groups[gi]) # << >>
           /\ \A wi \in DOMAIN Words(groups[gi]) :
                 WordSatisfied(Words(groups[gi])[wi], text)

\* C16: for a query of bare and '-' tokens, smartMatch is true exactly when
\* some '|'-separated group has all of its blank-separated tokens satisfied
\* by the lower-cased joined fields; "rainbows" matches "In Rainbows",
\* "-rainbows" does not, "a|b" matches when a or b alone does.
C16_SmartMatchGroups ==
    smResult # "pending" =>
        /\ (HasToken(smQuery) /\ IsPlain(smQuery))
              => (smResult = "true" <=> SomeGroupSatisfied(smQuery, JoinFields(smFields)))
        /\ (smQuery = Rainbows /\ smFields = <<InRainbows>>) => smResult = "true"
        /\ (smQuery = <<"-">> \o Rainbows /\ smFields = <<InRainbows>>)
              => smResult = "false"
        /\ smQuery = <<"a", "|", "B">>
              => (smResult = "true" <=>
                    \/ Contains(JoinFields(smFields), <<"a">>)
                    \/ Contains(JoinFields(smFields), <<"b">>))

\* C16 witness: "rainbows" matched "In Rainbows"
C16_Witness ==
    smResult = "true" /\ smQuery = Rainbows /\ smFields = <<InRainbows>>

\* C17 (as claimed): a query without a search token (empty, or blanks and
\* '|' only) makes smartMatch return true for every haystack.
C17_NoTokenMatchesAll ==
    (smResult # "pending" /\ ~HasToken(smQuery)) => smResult = "true"

\* the raw token is a /.../ token whose pattern does not compile
IsBadRegex(t) == t.m.kind = "regex" /\ ~ValidPattern(t.m.text)

\* C18: a query with a /.../ token whose pattern is not a valid regular
\* expression still returns; that token counts as a case-insensitive
\* substring test on the pattern text, the other tokens and groups count as
\* they do otherwise.
C18_BadRegexIsLiteral ==
    LET groups == OrGroups(smQuery)
        text == JoinFields(smFields)
        Counts(t) == IF IsBadRegex(t)
                     THEN (t.negate <=> ~Contains(text, Lower(t.m.text)))
                     ELSE TokenMatches(CompileToken(t), text)
    IN  (/\ smResult # "pending"
         /\ \E gi \in DOMAIN groups :
               \E ti \in DOMAIN RawTokens(groups[gi], 1) :
                  IsBadRegex(RawTokens(groups[gi], 1)[ti]))
          => (smResult = "true" <=>
                \E gi \in DOMAIN groups :
                   \A ti \in DOMAIN RawTokens(groups[gi], 1) :
                      Counts(RawTokens(groups[gi], 1)[ti]))

\* C18 witness: the query /(/ matched a haystack that holds "("
C18_Witness ==
    /\ smResult = "true"
    /\ smQuery = <<"/", "(", "/">>
    /\ smFields = <<<<"A", "-", "(">>>>

\* ------------------------------------------------------ properties: settings

\* C20 (as claimed): after the settings were saved, loadSettings leaves
\* appSettings.ratingMin, ratingMax, maxRecent and pollPauseMs equal to the
\* stored values, for every rating range min < max, zero included.
C20_SettingsRoundTrip ==
    [][(loadSettingsPending /\ ~loadSettingsPending' /\ settingsStore.saved)
          => /\ appSettings'.ratingMin = settingsStore.ratingMin
             /\ appSettings'.ratingMax = settingsStore.ratingMax
             /\ appSettings'.maxRecent = settingsStore.maxRecent
             /\ appSettings'.pollPauseMs = settingsStore.pollPauseMs]_vars

\* ----------------------------------------- properties: custom chart builder

\* positions of the rows of rawRatings inside the rating range of the click
ChartRows(in) ==
    {i \in DOMAIN rawRatings : InRatingRange(rawRatings[i], in.minRating, in.maxRating)}

\* those of them that belong to the group `label`
ChartGroupRows(in, label) ==
    {i \in ChartRows(in) : GroupKey(rawRatings[i], in.groupBy) = label}

\* v hundredths is the quotient num / den rounded to two decimals
IsRounded100(v, num, den) ==
    LET d == v * den - 100 * num
    IN  2 * d <= den /\ -2 * d <= den

\* v is the metric of the click over the rows idx, to two decimals
IsMetricOf(v, idx, in) ==
    LET n == Cardinality(idx)
        total == TotalAt({i \in idx : rawRatings[i].isNumber})
        bigN == Cardinality(NumericAt("all", ""))
        bigS == TotalAt(NumericAt("all", ""))
    IN  CASE in.metric = "count" -> v = 100 * n
          [] in.metric = "avgRating" -> IsRounded100(v, total, n)
          [] in.metric = "totalScore" -> v = 100 * total
          [] in.metric = "adjustedScore" ->
                IF bigN = 0 THEN IsRounded100(v, total, n + currentShrinkage)
                ELSE IsRounded100(v, total * bigN + currentShrinkage * bigS,
                                  bigN * (n + currentShrinkage))

\* entry a has to come after a group with label rank lb and value vb
ChartAfter(a, lb, vb, sortMode) ==
    LET av == IF sortMode.key = "label" THEN a.labelLower ELSE a.value
        bv == IF sortMode.key = "label" THEN lb ELSE vb
    IN  IF sortMode.dir = "asc" THEN av > bv ELSE av < bv

\* C21 (as claimed): the entries of a generated chart are at most `limit`
\* many, they are the first `limit` groups in the requested order (by label
\* or by value, ascending or descending), and each value is the metric of
\* the group over the records inside [minRating, maxRating] only, rounded to
\* two decimals.
C21_ChartIsLimitedPrefix ==
    customChart.made =>
        LET in == chartForm
            e == customChart.entries
            limit == IF in.limit = 0 THEN 20 ELSE in.limit
            labels == {GroupKey(rawRatings[i], in.groupBy) : i \in ChartRows(in)}
            shown == {e[i].label : i \in DOMAIN e}
        IN  /\ Len(e) <= limit
            /\ \A i, j \in DOMAIN e : i < j => e[i].label # e[j].label
            /\ shown \subseteq labels
            /\ \A i \in DOMAIN e : IsMetricOf(e[i].value, ChartGroupRows(in, e[i].label), in)
            /\ \A i, j \in DOMAIN e :
                  i < j => ~ChartAfter(e[i], e[j].labelLower, e[j].value, in.sortMode)
            /\ Len(e) < limit => shown = labels
            /\ \A l \in labels \ shown : \A i \in DOMAIN e :
                  \E v \in 0..(100 * (TotalAt(NumericAt("all", "")) + Len(rawRatings))) :
                     /\ IsMetricOf(v, ChartGroupRows(in, l), in)
                     /\ ~ChartAfter(e[i], LabelLower(l), v, in.sortMode)

\* ---------------------------------------------------------------- C29

\* the step is the continuation of a lookup started for track id
EnrichResultStep(id) == lookups'[id] < lookups[id]

\* C29: an enrichment response changes currentTrack.year only if a track is
\* displayed and it has the videoId of the track the lookup was started
\* for; a response that arrives after the displayed track changed or was
\* cleared changes neither the displayed track and its year nor the
\* anti-flicker memory, the timers, the requests in flight and the sidebars,
\* and it posts nothing.
C29_StaleEnrichmentDropped ==
    [][\A id \in WithAlbumId :
          EnrichResultStep(id) =>
             /\ currentYear' # currentYear
                   => currentTrack # NullTrack /\ currentTrack.videoId = id
             /\ (currentTrack = NullTrack \/ currentTrack.videoId # id)
                   => /\ currentYear' = currentYear
                      /\ unratedPost' = NoId
                      /\ UNCHANGED <<currentTrack, recentSongIds, appSettings, timerVars,
                                     pausePollToggle, nowPlayingInFlight, sidebarVars>>
      ]_vars

\* a lookup started for the displayed track was answered and its year is shown,
\* while a lookup started earlier for the same track is still awaited
C29_Witness ==
    /\ enrichment.followed
    /\ currentTrack.videoId \in WithAlbumId
    /\ currentYear = EnrichedYear
    /\ lookups[currentTrack.videoId] > 0

\* ---------------------------------------------------------------- C30

\* the auto-resume timeout fires (the toggle's handler and pausePolling()
\* under a checked toggle clear it instead)
ResumeStep ==
    /\ pollPauseTimeout = "pending"
    /\ pollPauseTimeout' = "null"
    /\ ~pausePollToggle'

\* C30: polling paused by a manual selection, a saved rating or a saved edit
\* with the toggle unchecked resumes: unless the toggle is checked or another
\* pause-triggering action restarts the delay, the recurring poll is running
\* again eventually; the timeout fires pollPauseMs after the pause-triggering
\* action that came last (an earlier pending timeout was cancelled by it) and
\* its firing starts the recurring poll.
C30_PausedEventuallyResumes ==
    /\ (pollPauseTimeout = "pending" /\ ~pausePollToggle /\ resumeDelay.sincePause > 0)
          ~> (pollInterval = "set" \/ pausePollToggle \/ resumeDelay.sincePause = 0)
    /\ [][ResumeStep => /\ resumeDelay.sincePause = PauseTicks
                        /\ pollInterval' = "set"
                        /\ activeIntervals' = activeIntervals + 1
                        /\ nowPlayingInFlight' = nowPlayingInFlight + 1]_vars

\* the timeout fired pollPauseMs after the pause and the recurring poll runs
C30_Witness ==
    /\ resumeDelay.followed
    /\ resumeDelay.sincePause = PauseTicks
    /\ pollPauseTimeout = "null"
    /\ pollInterval = "set"
    /\ ~pausePollToggle

\* ---------------------------------------------------------------- C31

\* the step is pollNowPlaying() after its await, without a track to reconcile
NoTrackStep == PollStep /\ lastPoll' = NoId

C37_RecentHasNoDuplicate ==
    \A i, j \in DOMAIN recentSongIds : i # j => recentSongIds[i] # recentSongIds[j]

\* two songs are remembered while a third one is displayed
C37_Witness ==
    /\ Len(recentSongIds) = 2
    /\ currentTrack # NullTrack
    /\ lastPoll = currentTrack.videoId

\* ---------------------------------------------------------------- C38

C33_InvalidRangeAborts ==
    [][((~settingsForm.numeric \/ settingsForm.min >= settingsForm.max)
           /\ settingsToast' # "none")
          => /\ settingsToast' = "error"
             /\ ~settingsPosted'
             /\ appSettings' = appSettings
             /\ settingsStore' = settingsStore
             /\ loadSettingsPending' = loadSettingsPending]_vars

\* saveSettings() rejected a range of two numbers with min >= max; nothing
\* is stored and no request is outstanding
C33_Witness ==
    /\ settingsToast = "error"
    /\ settingsForm.numeric
    /\ settingsForm.min >= settingsForm.max
    /\ ~settingsStore.saved
    /\ ~loadSettingsPending

\* ---------------------------------------------------------------- C32

\* the names a row is credited to under the current toggle, each once
CreditedNames(r) ==
    IF splitArtists THEN Range(SplitCredits(ArtistOf(r))) ELSE {ArtistOf(r)}

\* positions of the rows with a numeric rating credited to name
NumericCredits(name) ==
    {i \in DOMAIN rawRatings : rawRatings[i].isNumber /\ name \in CreditedNames(rawRatings[i])}

\* the data on display was aggregated from rawRatings
Aggregated == analyticsData.loaded /\ usingImported /\ ~importThrew

\* C34 (as claimed): each album summary carries the artist name, the year and
\* the album art of the first row seen for that album, with and without
\* split credits.
C34_AlbumCarriesFirstSeen ==
    Aggregated =>
        \A i \in DOMAIN analyticsData.albums :
            LET a == analyticsData.albums[i]
                first == FirstRowOf(rawRatings, a.name)
            IN  /\ a.artist = ArtistOf(first)
                /\ a.year = first.year
                /\ a.albumArt = first.albumArt

\* year and album art of an album summary are those of the first row seen
AlbumYearAndArtFirstSeen ==
    Aggregated =>
        \A i \in DOMAIN analyticsData.albums :
            LET a == analyticsData.albums[i]
                first == FirstRowOf(rawRatings, a.name)
            IN  a.year = first.year /\ a.albumArt = first.albumArt

C36_OneAppearancePerCredit ==
    Aggregated =>
        \A i \in DOMAIN analyticsData.artists :
            analyticsData.artists[i].appearances
                = Cardinality(NumericCredits(analyticsData.artists[i].name))

\* C32 (as claimed): an import whose aggregation raises an error leaves
\* rawRatings, usingImported and analyticsData as they were before the attempt.
C32_FailedImportNoEffect ==
    [][(importThrew' /\ lastOp' = "import" /\ analyticsPage' # analyticsPage)
          => /\ rawRatings' = rawRatings
             /\ usingImported' = usingImported
             /\ analyticsData' = analyticsData]_vars

====
